---- MODULE Spec2Model ----
(***************************************************************************)
(* Trace ingestion front end of the trace processor:                       *)
(*   - GuessTraceType, the format sniffer                                  *)
(*     (src/trace_processor/forwarding_trace_parser.cc:157-203);           *)
(*   - ForwardingTraceParser, the dispatcher that binds a tokenizer and a  *)
(*     TraceSorter on the first Parse() call                               *)
(*     (src/trace_processor/forwarding_trace_parser.cc:60-155).            *)
(* With it: the reordering engine behind the dispatcher, the perfetto      *)
(* command line client (src/perfetto_cmd/perfetto_cmd.cc) and the query    *)
(* state machine of the UI's BaseSliceTrack.                               *)
(* Byte strings are sequences of integers 0..255.                          *)
(***************************************************************************)
EXTENDS Integers, Sequences, FiniteSets, TLC

VARIABLES
  buf,         \* sniffer harness: the caller's buffer passed as (data, size)
  kind,        \* result of GuessTraceType(buf, size), or NoCall
  kindAgain,   \* result of a second call on the same buffer, or NoCall
  kindWindow,  \* result of a call on a copy of the first 32 bytes, or NoCall
  reader_,     \* ForwardingTraceParser::reader_ (Null until bound)
  context_,    \* the TraceProcessorContext fields the dispatcher touches
  guessed,     \* trace types returned to Parse() by GuessTraceType, in order
  calls,       \* calls made on collaborators by the latest operation, in order
  received,    \* blobs passed to reader_->Parse(), in order
  eofs,        \* number of reader_->NotifyEndOfFile() calls
  eof_calls,   \* number of ForwardingTraceParser::NotifyEndOfFile() calls
  status,      \* util::Status returned by the latest Parse()
  feeds,       \* number of Parse() calls so far
  crashed,     \* the process died (null dereference)
  eng_mode,    \* reordering engine: its sort mode (TraceSorter::SortingMode)
  eng_state,   \* its state: Empty, Accumulating or Closed between operations
  eng_path,    \* the states the latest operation went through, in order
  eng_buffer,  \* the buffered events, a set of [ts, seq]
  eng_high_water, \* the maximum timestamp seen so far, NoTs before any event
  eng_inserted,   \* the accepted events, in arrival order
  eng_emitted,    \* the events emitted to the parser, in order, with the cause
  eng_ticks,   \* number of periodic ticks so far
  eng_rejected,   \* number of insertions refused by a closed engine
  eng_failed,  \* a SequenceError was raised (fatal)
  argv,        \* perfetto: the command line, until it has been parsed
  cmd,         \* the members of PerfettoCmd
  pc,          \* where the perfetto process is
  exit_code,   \* its exit code, Nullopt while it runs
  svc,         \* what the service and the task runner still owe the client
  ipc,         \* the calls made on consumer_endpoint_
  finalized,   \* number of FinalizeTraceAndExit() runs
  last_wd,     \* the latest of CheckTraceDataTimeout and OnTraceData
  pipe,        \* background_wait_pipe_: write end open, bytes written
  fg,          \* the foreground process of --background
  atoms,       \* the PerfettoStatsdAtoms passed to LogUploadEvent()
  track,       \* UI: the fields of one BaseSliceTrack
  pending,     \* the suspended maybeRequestData() calls, each at its await
  viz,         \* globals.frontendLocalState: visible window and resolution
  frames,      \* number of renderCanvas() calls so far
  queries      \* number of engine.query() calls of the track so far

sniffVars == <<buf, kind, kindAgain, kindWindow>>

fwdVars ==
  <<reader_, context_, guessed, calls, received, eofs, eof_calls, status, feeds,
    crashed>>

engVars ==
  <<eng_mode, eng_state, eng_path, eng_buffer, eng_high_water, eng_inserted,
    eng_emitted, eng_ticks, eng_rejected, eng_failed>>

cmdVars ==
  <<argv, cmd, pc, exit_code, svc, ipc, finalized, last_wd, pipe, fg, atoms>>

trackVars == <<track, pending, viz, frames, queries>>

vars ==
  <<buf, kind, kindAgain, kindWindow,
    reader_, context_, guessed, calls, received, eofs, eof_calls, status, feeds,
    crashed,
    eng_mode, eng_state, eng_path, eng_buffer, eng_high_water, eng_inserted,
    eng_emitted, eng_ticks, eng_rejected, eng_failed,
    argv, cmd, pc, exit_code, svc, ipc, finalized, last_wd, pipe, fg, atoms,
    track, pending, viz, frames, queries>>

(***************************************************************************)
(* Literals of the source                                                  *)
(***************************************************************************)

\* TraceType enumerators
kUnknownTraceType == "kUnknownTraceType"
kProtoTraceType == "kProtoTraceType"
kJsonTraceType == "kJsonTraceType"
kFuchsiaTraceType == "kFuchsiaTraceType"
kSystraceTraceType == "kSystraceTraceType"
kGzipTraceType == "kGzipTraceType"
kCtraceTraceType == "kCtraceTraceType"
kNinjaLogTraceType == "kNinjaLogTraceType"

TraceTypes ==
  {kUnknownTraceType, kProtoTraceType, kJsonTraceType, kFuchsiaTraceType,
   kSystraceTraceType, kGzipTraceType, kCtraceTraceType, kNinjaLogTraceType}

\* 0x0016547846040010 as memcpy reads it on a little-endian build
kFuchsiaMagicNumber == <<16, 0, 4, 70, 120, 84, 22, 0>>

\* mutant: a sniffing window wider than 32 bytes
kGuessWindowWide == 32 + 32

\* std::min<size_t>(size, 32)
kGuessWindow == 32

\* "{\""
JsonObjectStart == <<123, 34>>
\* "[{\""
JsonArrayStart == <<91, 123, 34>>
\* "# tracer"
SystraceHeader == <<35, 32, 116, 114, 97, 99, 101, 114>>
\* "<!DOCTYPE html>"
HtmlDoctype == <<60, 33, 68, 79, 67, 84, 89, 80, 69, 32, 104, 116, 109, 108, 62>>
\* "<html>"
HtmlTag == <<60, 104, 116, 109, 108, 62>>
\* "TRACE:"
CtraceHeader == <<84, 82, 65, 67, 69, 58>>
\* "# ninja log"
NinjaLogHeader == <<35, 32, 110, 105, 110, 106, 97, 32, 108, 111, 103>>
\* " "
LeadingSpace == <<32>>
\* "\x1f\x8b"
GzipMagic == <<31, 139>>
\* "\x0a"
ProtoFirstByte == <<10>>

(***************************************************************************)
(* Helpers of GuessTraceType                                               *)
(***************************************************************************)

Min(a, b) == IF a < b THEN a ELSE b

\* ::isspace in the "C" locale: \t \n \v \f \r and space
isspace(c) == c \in {9, 10, 11, 12, 13, 32}

\* str.erase(std::remove_if(begin, end, isspace), end)
RemoveWhitespace(str) == SelectSeq(str, LAMBDA c : ~isspace(c))

\* str.compare(0, prefix.size(), prefix) == 0
StartsWith(str, prefix) ==
  /\ Len(str) >= Len(prefix)
  /\ SubSeq(str, 1, Len(prefix)) = prefix

\* str.find(substr) != npos
Contains(haystack, needle) ==
  \E i \in 1..(Len(haystack) - Len(needle) + 1) :
    SubSeq(haystack, i, i + Len(needle) - 1) = needle

(***************************************************************************)
(* TraceType GuessTraceType(const uint8_t* data, size_t size)              *)
(***************************************************************************)

\* mutant: the "TRACE:" test is made before the two HTML tests
GuessTraceTypeCtraceBeforeHtml(data, size) ==
  IF size = 0 THEN kUnknownTraceType
  ELSE
    LET start == SubSeq(data, 1, Min(size, kGuessWindow))
        first_word == SubSeq(data, 1, 8)
        start_minus_white_space == RemoveWhitespace(start)
    IN
      IF size >= 8 /\ first_word = kFuchsiaMagicNumber THEN kFuchsiaTraceType
      ELSE IF StartsWith(start_minus_white_space, JsonObjectStart) THEN kJsonTraceType
      ELSE IF StartsWith(start_minus_white_space, JsonArrayStart) THEN kJsonTraceType
      ELSE IF Contains(start, SystraceHeader) THEN kSystraceTraceType
      ELSE IF Contains(start, CtraceHeader) THEN kCtraceTraceType
      ELSE IF StartsWith(start, HtmlDoctype) \/ StartsWith(start, HtmlTag)
        THEN kSystraceTraceType
      ELSE IF StartsWith(start, NinjaLogHeader) THEN kNinjaLogTraceType
      ELSE IF StartsWith(start, LeadingSpace) THEN kSystraceTraceType
      ELSE IF StartsWith(start, GzipMagic) THEN kGzipTraceType
      ELSE IF StartsWith(start, ProtoFirstByte) THEN kProtoTraceType
      ELSE kUnknownTraceType

\* mutant: the Fuchsia magic number is tested after the textual headers
GuessTraceTypeFuchsiaLate(data, size) ==
  IF size = 0 THEN kUnknownTraceType
  ELSE
    LET start == SubSeq(data, 1, Min(size, kGuessWindow))
        first_word == SubSeq(data, 1, 8)
        start_minus_white_space == RemoveWhitespace(start)
    IN
      IF StartsWith(start_minus_white_space, JsonObjectStart) THEN kJsonTraceType
      ELSE IF StartsWith(start_minus_white_space, JsonArrayStart) THEN kJsonTraceType
      ELSE IF Contains(start, SystraceHeader) THEN kSystraceTraceType
      ELSE IF StartsWith(start, HtmlDoctype) \/ StartsWith(start, HtmlTag)
        THEN kSystraceTraceType
      ELSE IF Contains(start, CtraceHeader) THEN kCtraceTraceType
      ELSE IF size >= 8 /\ first_word = kFuchsiaMagicNumber THEN kFuchsiaTraceType
      ELSE IF StartsWith(start, NinjaLogHeader) THEN kNinjaLogTraceType
      ELSE IF StartsWith(start, LeadingSpace) THEN kSystraceTraceType
      ELSE IF StartsWith(start, GzipMagic) THEN kGzipTraceType
      ELSE IF StartsWith(start, ProtoFirstByte) THEN kProtoTraceType
      ELSE kUnknownTraceType

GuessTraceType(data, size) ==
  IF size = 0 THEN kUnknownTraceType
  ELSE
    LET start == SubSeq(data, 1, Min(size, kGuessWindow))
        first_word == SubSeq(data, 1, 8)
        start_minus_white_space == RemoveWhitespace(start)
    IN
      IF size >= 8 /\ first_word = kFuchsiaMagicNumber THEN kFuchsiaTraceType
      ELSE IF StartsWith(start_minus_white_space, JsonObjectStart) THEN kJsonTraceType
      ELSE IF StartsWith(start_minus_white_space, JsonArrayStart) THEN kJsonTraceType
      ELSE IF Contains(start, SystraceHeader) THEN kSystraceTraceType
      ELSE IF StartsWith(start, HtmlDoctype) \/ StartsWith(start, HtmlTag)
        THEN kSystraceTraceType
      ELSE IF Contains(start, CtraceHeader) THEN kCtraceTraceType
      ELSE IF StartsWith(start, NinjaLogHeader) THEN kNinjaLogTraceType
      ELSE IF StartsWith(start, LeadingSpace) THEN kSystraceTraceType
      ELSE IF StartsWith(start, GzipMagic) THEN kGzipTraceType
      ELSE IF StartsWith(start, ProtoFirstByte) THEN kProtoTraceType
      ELSE kUnknownTraceType

(***************************************************************************)
(* ForwardingTraceParser: literals                                         *)
(***************************************************************************)

Null == "nullptr"

\* SortingMode (the embedder's configuration)
kDefaultHeuristics == "kDefaultHeuristics"
kForceFlushPeriodWindowedSort == "kForceFlushPeriodWindowedSort"
kForceFullSort == "kForceFullSort"

SortingModes == {kDefaultHeuristics, kForceFlushPeriodWindowedSort, kForceFullSort}

\* TraceSorter::SortingMode
kDefault == "TraceSorter::kDefault"
kFullSort == "TraceSorter::kFullSort"

\* "Cannot open compressed trace. zlib not enabled in the build config"
kNoZlibErr ==
  <<67, 97, 110, 110, 111, 116, 32, 111, 112, 101, 110, 32, 99, 111, 109, 112,
    114, 101, 115, 115, 101, 100, 32, 116, 114, 97, 99, 101, 46, 32, 122, 108,
    105, 98, 32, 110, 111, 116, 32, 101, 110, 97, 98, 108, 101, 100, 32, 105,
    110, 32, 116, 104, 101, 32, 98, 117, 105, 108, 100, 32, 99, 111, 110, 102,
    105, 103>>

\* "JSON support is disabled", "Fuchsia support is disabled",
\* "Systrace support is disabled"
DisabledErr ==
  [Json |->
     <<74, 83, 79, 78, 32, 115, 117, 112, 112, 111, 114, 116, 32, 105, 115,
       32, 100, 105, 115, 97, 98, 108, 101, 100>>,
   Fuchsia |->
     <<70, 117, 99, 104, 115, 105, 97, 32, 115, 117, 112, 112, 111, 114, 116,
       32, 105, 115, 32, 100, 105, 115, 97, 98, 108, 101, 100>>,
   Systrace |->
     <<83, 121, 115, 116, 114, 97, 99, 101, 32, 115, 117, 112, 112, 111, 114,
       116, 32, 105, 115, 32, 100, 105, 115, 97, 98, 108, 101, 100>>]

\* mutant: "Unknown trace type provided", the marker removed by a rename
UnknownTraceTypeErrRenamed ==
  <<85, 110, 107, 110, 111, 119, 110, 32, 116, 114, 97, 99, 101, 32, 116, 121,
    112, 101, 32, 112, 114, 111, 118, 105, 100, 101, 100>>

\* "Unknown trace type provided (ERR:fmt)"
UnknownTraceTypeErr ==
  <<85, 110, 107, 110, 111, 119, 110, 32, 116, 114, 97, 99, 101, 32, 116, 121,
    112, 101, 32, 112, 114, 111, 118, 105, 100, 101, 100, 32, 40, 69, 82, 82,
    58, 102, 109, 116, 41>>

\* util::OkStatus() and util::ErrStatus(msg)
OkStatus == [ok |-> TRUE, msg |-> <<>>]

ErrStatus(msg) == [ok |-> FALSE, msg |-> msg]

\* calls the dispatcher makes on its collaborators
Call ==
  [Guess |-> "GuessTraceType",
   SorterReset |-> "context_->sorter.reset",
   SetPidZero |-> "process_tracker->SetPidZeroIgnoredForIdleProcess",
   ReaderParse |-> "reader_->Parse",
   ReaderEof |-> "reader_->NotifyEndOfFile"]

(***************************************************************************)
(* ForwardingTraceParser::Parse: the switch on the guessed trace type.     *)
(* Each case maps the context to [reader, ctx, calls, ret]: the new        *)
(* reader_, the new context, the collaborator calls made in order, whether *)
(* the case returns from Parse (returns) and the status it returns (ret).  *)
(***************************************************************************)

\* mutant: the forced windowed mode is mapped to the full sort
ConvertSortingModeWindowedAsFull(sorting_mode) ==
  CASE sorting_mode = kDefaultHeuristics -> kDefault
    [] sorting_mode = kForceFlushPeriodWindowedSort -> kFullSort
    [] sorting_mode = kForceFullSort -> kFullSort

ConvertSortingMode(sorting_mode) ==
  CASE sorting_mode = kDefaultHeuristics -> kDefault
    [] sorting_mode = kForceFlushPeriodWindowedSort -> kDefault
    [] sorting_mode = kForceFullSort -> kFullSort

\* new TraceSorter(context_, parser, sorting_mode)
TraceSorter(parser, sorting_mode) == [parser |-> parser, sorting_mode |-> sorting_mode]

\* context_->sorter before any reset: an empty unique_ptr
NullSorter == [parser |-> Null, sorting_mode |-> Null]

\* the status of a case that leaves the switch with break
NoReturn == [ok |-> TRUE, msg |-> <<>>]

JsonCase(ctx) ==
  IF ctx.json_trace_tokenizer # Null /\ ctx.json_trace_parser # Null
  THEN [reader |-> ctx.json_trace_tokenizer,
        ctx |-> [ctx EXCEPT !.json_trace_tokenizer = Null,
                            !.json_trace_parser = Null,
                            !.sorter = TraceSorter(ctx.json_trace_parser, kFullSort)],
        calls |-> <<Call.SorterReset>>,
        returns |-> FALSE, ret |-> NoReturn]
  ELSE [reader |-> Null, ctx |-> ctx, calls |-> <<>>,
        returns |-> TRUE, ret |-> ErrStatus(DisabledErr.Json)]

\* mutant: the proto case binds the reader without creating the sorter
ProtoCaseWithoutSorter(ctx) ==
  [reader |-> "ProtoTraceReader",
   ctx |-> [ctx EXCEPT !.pid_zero_ignored = ctx.pid_zero_ignored + 1],
   calls |-> <<Call.SetPidZero>>,
   returns |-> FALSE, ret |-> NoReturn]

ProtoCase(ctx) ==
  LET sorting_mode == ConvertSortingMode(ctx.sorting_mode) IN
  [reader |-> "ProtoTraceReader",
   ctx |-> [ctx EXCEPT !.sorter = TraceSorter("ProtoTraceParser", sorting_mode),
                       !.pid_zero_ignored = ctx.pid_zero_ignored + 1],
   calls |-> <<Call.SorterReset, Call.SetPidZero>>,
   returns |-> FALSE, ret |-> NoReturn]

\* mutant: the ninja log case also sends the PID 0 notification
NinjaLogCaseNotifiesPidZero(ctx) ==
  [reader |-> "NinjaLogParser",
   ctx |-> [ctx EXCEPT !.pid_zero_ignored = ctx.pid_zero_ignored + 1],
   calls |-> <<Call.SetPidZero>>,
   returns |-> FALSE, ret |-> NoReturn]

NinjaLogCase(ctx) ==
  [reader |-> "NinjaLogParser", ctx |-> ctx, calls |-> <<>>, returns |-> FALSE, ret |-> NoReturn]

FuchsiaCase(ctx) ==
  IF ctx.fuchsia_trace_parser # Null /\ ctx.fuchsia_trace_tokenizer # Null
  THEN [reader |-> ctx.fuchsia_trace_tokenizer,
        ctx |-> [ctx EXCEPT !.fuchsia_trace_tokenizer = Null,
                            !.fuchsia_trace_parser = Null,
                            !.sorter = TraceSorter(ctx.fuchsia_trace_parser, kFullSort)],
        calls |-> <<Call.SorterReset>>,
        returns |-> FALSE, ret |-> NoReturn]
  ELSE [reader |-> Null, ctx |-> ctx, calls |-> <<>>,
        returns |-> TRUE, ret |-> ErrStatus(DisabledErr.Fuchsia)]

SystraceCase(ctx) ==
  LET notified == [ctx EXCEPT !.pid_zero_ignored = ctx.pid_zero_ignored + 1] IN
  IF ctx.systrace_trace_parser # Null
  THEN [reader |-> ctx.systrace_trace_parser,
        ctx |-> [notified EXCEPT !.systrace_trace_parser = Null],
        calls |-> <<Call.SetPidZero>>,
        returns |-> FALSE, ret |-> NoReturn]
  ELSE [reader |-> Null, ctx |-> notified, calls |-> <<Call.SetPidZero>>,
        returns |-> TRUE, ret |-> ErrStatus(DisabledErr.Systrace)]

\* mutant: the else branch lacks its return and falls through to the
\* kUnknownTraceType case
GzipCaseFallsThrough(ctx) ==
  IF ctx.gzip_trace_parser # Null
  THEN [reader |-> ctx.gzip_trace_parser,
        ctx |-> [ctx EXCEPT !.gzip_trace_parser = Null],
        calls |-> <<>>,
        returns |-> FALSE, ret |-> NoReturn]
  ELSE [reader |-> Null, ctx |-> ctx, calls |-> <<>>,
        returns |-> TRUE, ret |-> ErrStatus(UnknownTraceTypeErr)]

GzipCase(ctx) ==
  IF ctx.gzip_trace_parser # Null
  THEN [reader |-> ctx.gzip_trace_parser,
        ctx |-> [ctx EXCEPT !.gzip_trace_parser = Null],
        calls |-> <<>>,
        returns |-> FALSE, ret |-> NoReturn]
  ELSE [reader |-> Null, ctx |-> ctx, calls |-> <<>>,
        returns |-> TRUE, ret |-> ErrStatus(kNoZlibErr)]

UnknownCase(ctx) ==
  [reader |-> Null, ctx |-> ctx, calls |-> <<>>,
   returns |-> TRUE, ret |-> ErrStatus(UnknownTraceTypeErr)]

\* switch (trace_type)
SwitchTraceType(trace_type, ctx) ==
  CASE trace_type = kJsonTraceType -> JsonCase(ctx)
    [] trace_type = kProtoTraceType -> ProtoCase(ctx)
    [] trace_type = kNinjaLogTraceType -> NinjaLogCase(ctx)
    [] trace_type = kFuchsiaTraceType -> FuchsiaCase(ctx)
    [] trace_type = kSystraceTraceType -> SystraceCase(ctx)
    [] trace_type \in {kGzipTraceType, kCtraceTraceType} -> GzipCase(ctx)
    [] trace_type = kUnknownTraceType -> UnknownCase(ctx)

\* mutant: the trace type is guessed on every Parse() call
FirstParseOnEveryCall(reader) == TRUE

\* if (!reader_)
FirstParse(reader) == reader = Null

(***************************************************************************)
(* ForwardingTraceParser: state machine                                    *)
(***************************************************************************)

\* number of Parse() calls explored
MaxFeeds == 2
\* number of NotifyEndOfFile() calls explored
MaxEofs == 1

\* status a bound tokenizer returns for a blob it rejects
\* "Failed to parse trace"
TokenizerErr ==
  <<70, 97, 105, 108, 101, 100, 32, 116, 111, 32, 112, 97, 114, 115, 101, 32,
    116, 114, 97, 99, 101>>

TokenizerStatuses == {OkStatus, ErrStatus(TokenizerErr)}

\* one representative blob per trace type, and an empty blob
Blob ==
  [Proto |-> <<10, 3, 8, 1>>,
   Json |-> <<123, 34, 97, 34, 58, 49, 125>>,
   Systrace |-> SystraceHeader \o <<58, 32, 110, 111, 112, 10>>,
   Ctrace |-> CtraceHeader \o <<10, 120, 156>>,
   Gzip |-> <<31, 139, 8, 0>>,
   Fuchsia |-> kFuchsiaMagicNumber \o <<1, 0>>,
   NinjaLog |-> NinjaLogHeader \o <<32, 118, 53, 10>>,
   Unknown |-> <<120, 121, 122>>,
   Empty |-> <<>>]

Blobs == {Blob[b] : b \in DOMAIN Blob}

\* a unique_ptr the embedder registered, or nullptr when compiled out
Registered(name) == {name, Null}

\* ForwardingTraceParser(TraceProcessorContext* context)
FwdInit ==
  /\ reader_ = Null
  /\ \E jt \in Registered("JsonTraceTokenizer"), jp \in Registered("JsonTraceParser"),
        ft \in Registered("FuchsiaTraceTokenizer"), fp \in Registered("FuchsiaTraceParser"),
        sp \in Registered("SystraceTraceParser"), gp \in Registered("GzipTraceParser"),
        sm \in SortingModes :
       context_ = [json_trace_tokenizer |-> jt, json_trace_parser |-> jp,
                   fuchsia_trace_tokenizer |-> ft, fuchsia_trace_parser |-> fp,
                   systrace_trace_parser |-> sp, gzip_trace_parser |-> gp,
                   sorting_mode |-> sm, sorter |-> NullSorter, pid_zero_ignored |-> 0]
  /\ guessed = <<>>
  /\ calls = <<>>
  /\ received = <<>>
  /\ eofs = 0
  /\ eof_calls = 0
  /\ status = OkStatus
  /\ feeds = 0
  /\ crashed = FALSE

\* mutant: a tokenizer error drops the bound reader, so that the next Parse()
\* guesses the trace type again
ParseRebindsOnError(blob, tokenizer_status) ==
  /\ ~crashed
  /\ feeds < MaxFeeds
  /\ feeds' = feeds + 1
  /\ LET first == FirstParse(reader_)
         trace_type == GuessTraceType(blob, Len(blob))
         r == IF first
              THEN SwitchTraceType(trace_type, context_)
              ELSE [reader |-> reader_, ctx |-> context_, calls |-> <<>>, returns |-> FALSE, ret |-> NoReturn]
         sniff == IF first THEN <<Call.Guess>> ELSE <<>>
     IN /\ reader_' = IF ~r.returns /\ ~tokenizer_status.ok THEN Null ELSE r.reader
        /\ context_' = r.ctx
        /\ guessed' = IF first THEN Append(guessed, trace_type) ELSE guessed
        /\ IF r.returns
           THEN /\ status' = r.ret
                /\ calls' = sniff \o r.calls
                /\ received' = received
           ELSE /\ status' = tokenizer_status
                /\ calls' = sniff \o r.calls \o <<Call.ReaderParse>>
                /\ received' = Append(received, blob)
  /\ UNCHANGED <<eofs, eof_calls, crashed>>

\* util::Status ForwardingTraceParser::Parse(TraceBlobView blob)
\* mutant: the blob used for sniffing is not handed to the bound reader
ParseSniffConsumesBlob(blob, tokenizer_status) ==
  /\ ~crashed
  /\ feeds < MaxFeeds
  /\ feeds' = feeds + 1
  /\ LET first == FirstParse(reader_)
         trace_type == GuessTraceType(blob, Len(blob))
         r == IF first
              THEN SwitchTraceType(trace_type, context_)
              ELSE [reader |-> reader_, ctx |-> context_, calls |-> <<>>, returns |-> FALSE, ret |-> NoReturn]
         sniff == IF first THEN <<Call.Guess>> ELSE <<>>
     IN /\ reader_' = r.reader
        /\ context_' = r.ctx
        /\ guessed' = IF first THEN Append(guessed, trace_type) ELSE guessed
        /\ IF r.returns
           THEN /\ status' = r.ret
                /\ calls' = sniff \o r.calls
                /\ received' = received
           ELSE /\ status' = tokenizer_status
                /\ calls' = sniff \o r.calls \o <<Call.ReaderParse>>
                /\ received' = IF first THEN received ELSE Append(received, blob)
  /\ UNCHANGED <<eofs, eof_calls, crashed>>

Parse(blob, tokenizer_status) ==
  /\ ~crashed
  /\ feeds < MaxFeeds
  /\ feeds' = feeds + 1
  /\ LET first == FirstParse(reader_)
         trace_type == GuessTraceType(blob, Len(blob))
         r == IF first
              THEN SwitchTraceType(trace_type, context_)
              ELSE [reader |-> reader_, ctx |-> context_, calls |-> <<>>, returns |-> FALSE, ret |-> NoReturn]
         sniff == IF first THEN <<Call.Guess>> ELSE <<>>
     IN /\ reader_' = r.reader
        /\ context_' = r.ctx
        /\ guessed' = IF first THEN Append(guessed, trace_type) ELSE guessed
        /\ IF r.returns
           THEN /\ status' = r.ret
                /\ calls' = sniff \o r.calls
                /\ received' = received
           ELSE /\ status' = tokenizer_status
                /\ calls' = sniff \o r.calls \o <<Call.ReaderParse>>
                /\ received' = Append(received, blob)
  /\ UNCHANGED <<eofs, eof_calls, crashed>>

\* void ForwardingTraceParser::NotifyEndOfFile(): reader_ is dereferenced
\* unchecked; with reader_ == nullptr the call either faults or does nothing
NotifyEndOfFile(outcome) ==
  /\ ~crashed
  /\ eof_calls < MaxEofs
  /\ eof_calls' = eof_calls + 1
  /\ IF reader_ # Null
     THEN /\ eofs' = eofs + 1
          /\ calls' = <<Call.ReaderEof>>
          /\ crashed' = crashed
     ELSE /\ crashed' = (outcome = "fault")
          /\ UNCHANGED <<eofs, calls>>
  /\ UNCHANGED <<reader_, context_, guessed, received, status, feeds>>

NullDerefOutcomes == {"fault", "nothing"}

(***************************************************************************)
(* Reordering Engine (TraceSorter), from sections 4.3 and 7 of the design: *)
(* the class is constructed at forwarding_trace_parser.cc:82-84, 94-97 and *)
(* 113-115 with TraceSorter::SortingMode kDefault (windowed) or kFullSort.  *)
(*                                                                         *)
(*  - an event more than the window behind the high-water timestamp is     *)
(*    emitted at once (section 8); any other event is buffered;            *)
(*  - a flush emits the buffered events older than high-water - window, in *)
(*    (timestamp, arrival) order; it is triggered by a periodic tick, or   *)
(*    by an insertion that advances the high-water timestamp past a flush  *)
(*    boundary: the boundaries are left open by the design, so whether an  *)
(*    advancing insertion flushes is an input of Insert;                   *)
(*  - the state machine has the edges Empty -> Accumulating,               *)
(*    Accumulating <-> Flushing, Accumulating -> Draining -> Closed and no *)
(*    other; an operation out of that order (end of stream before any      *)
(*    event, an insertion or an end of stream after Closed) is a           *)
(*    SequenceError, fatal to the process.                                 *)
(***************************************************************************)

\* the trailing window of the windowed mode
WindowNs == 1
\* timestamps are drawn from 0..MaxTs
MaxTs == 4
\* number of Insert() calls explored
MaxEvents == 3
\* number of periodic ticks explored
MaxTicks == 1

NoTs == -1

Timestamps == 0..MaxTs

\* states of the engine
Eng ==
  [Empty |-> "Empty", Accumulating |-> "Accumulating",
   Flushing |-> "Flushing", Draining |-> "Draining", Closed |-> "Closed"]

\* how an event left the engine
By == [Late |-> "late", Flush |-> "flush", Drain |-> "drain"]

\* (timestamp, arrival sequence number) order
SortKeyLess(a, b) == a.ts < b.ts \/ (a.ts = b.ts /\ a.seq < b.seq)

\* mutant: ties between equal timestamps go to the event that arrived last
FirstEventLastArrivedWins(events) ==
  CHOOSE e \in events : \A f \in events \ {e} :
    e.ts < f.ts \/ (e.ts = f.ts /\ e.seq > f.seq)

\* the head of the priority structure
FirstEvent(events) ==
  CHOOSE e \in events : \A f \in events \ {e} : SortKeyLess(e, f)

RECURSIVE InKeyOrder(_)
\* the events of a set as the sequence in which they are emitted
InKeyOrder(events) ==
  IF events = {} THEN <<>>
  ELSE LET e == FirstEvent(events) IN <<e>> \o InKeyOrder(events \ {e})

\* an emitted event and what caused it
Emit(events, cause) ==
  [i \in 1..Len(events) |-> [ts |-> events[i].ts, seq |-> events[i].seq, by |-> cause]]

\* mutant: the flush also takes the events exactly one window old
FlushableInclusive(buffer, high_water) ==
  {e \in buffer : e.ts <= high_water - WindowNs}

\* mutant: the flush takes every buffered event
FlushableEverything(buffer, high_water) ==
  {e \in buffer : e.ts <= high_water}

\* the buffered events older than high-water - window
Flushable(buffer, high_water) ==
  {e \in buffer : e.ts < high_water - WindowNs}

\* mutant: nothing is ever late, every event is buffered
IsLateNever(mode, high_water, ts) == FALSE

\* the event is more than the window behind the high-water timestamp
IsLate(mode, high_water, ts) ==
  /\ mode = kDefault
  /\ high_water # NoTs
  /\ ts < high_water - WindowNs

\* mutant: a late event is dropped
LateEmissionDropped(ev) == <<>>

\* a late event goes straight to the parser
LateEmission(ev) == Emit(<<ev>>, By.Late)

\* mutant: the drain keeps to the flush rule and leaves the recent events
DrainableOnlyOld(buffer, high_water) == Flushable(buffer, high_water)

\* the events emitted at end of stream: all that is buffered
Drainable(buffer, high_water) == buffer

\* mutant: the periodic tick flushes whatever the sort mode
TickFlushesAnyMode(mode, state) == state = Eng.Accumulating

\* a periodic tick flushes in windowed mode once events are accumulating
TickFlushes(mode, state) == mode = kDefault /\ state = Eng.Accumulating

\* mutant: a closed engine takes further input
AcceptsInputAlways(state) == TRUE

\* the engine takes input until it is closed
AcceptsInput(state) == state # Eng.Closed

EngInit ==
  /\ eng_mode \in {kDefault, kFullSort}
  /\ eng_state = Eng.Empty
  /\ eng_path = <<>>
  /\ eng_buffer = {}
  /\ eng_high_water = NoTs
  /\ eng_inserted = <<>>
  /\ eng_emitted = <<>>
  /\ eng_ticks = 0
  /\ eng_rejected = 0
  /\ eng_failed = FALSE

\* an engine that is never constructed
EngIdle ==
  /\ eng_mode = kDefault
  /\ eng_state = Eng.Empty
  /\ eng_path = <<>>
  /\ eng_buffer = {}
  /\ eng_high_water = NoTs
  /\ eng_inserted = <<>>
  /\ eng_emitted = <<>>
  /\ eng_ticks = 0
  /\ eng_rejected = 0
  /\ eng_failed = FALSE

\* insertion of one tokenized event; flush_now tells whether an insertion that
\* advances the high-water timestamp crosses a flush boundary
Insert(ts, flush_now) ==
  /\ ~eng_failed
  /\ Len(eng_inserted) < MaxEvents
  /\ IF ~AcceptsInput(eng_state)
     THEN /\ eng_failed' = TRUE
          /\ eng_rejected' = eng_rejected + 1
          /\ eng_path' = <<>>
          /\ UNCHANGED <<eng_state, eng_buffer, eng_high_water, eng_inserted,
                         eng_emitted>>
     ELSE LET ev == [ts |-> ts, seq |-> Len(eng_inserted) + 1]
              advances == eng_high_water # NoTs /\ ts > eng_high_water
              high_water == IF ts > eng_high_water THEN ts ELSE eng_high_water
              buffered == eng_buffer \cup {ev}
              flushed == Flushable(buffered, high_water)
          IN /\ eng_inserted' = Append(eng_inserted, ev)
             /\ eng_failed' = FALSE
             /\ eng_rejected' = eng_rejected
             /\ IF IsLate(eng_mode, eng_high_water, ts)
                THEN /\ eng_emitted' = eng_emitted \o LateEmission(ev)
                     /\ eng_path' = <<>>
                     /\ UNCHANGED <<eng_state, eng_buffer, eng_high_water>>
                ELSE /\ eng_high_water' = high_water
                     /\ eng_state' = Eng.Accumulating
                     /\ IF eng_mode = kDefault /\ advances /\ flush_now
                        THEN /\ eng_emitted' = eng_emitted \o Emit(InKeyOrder(flushed), By.Flush)
                             /\ eng_buffer' = buffered \ flushed
                             /\ eng_path' = <<Eng.Flushing, Eng.Accumulating>>
                        ELSE /\ eng_emitted' = eng_emitted
                             /\ eng_buffer' = buffered
                             /\ eng_path' = IF eng_state = Eng.Empty
                                              THEN <<Eng.Accumulating>>
                                              ELSE <<>>
  /\ UNCHANGED <<eng_mode, eng_ticks>>

\* explicit periodic tick from the capture pipeline
Tick ==
  /\ ~eng_failed
  /\ eng_ticks < MaxTicks
  /\ eng_ticks' = eng_ticks + 1
  /\ IF TickFlushes(eng_mode, eng_state)
     THEN LET flushed == Flushable(eng_buffer, eng_high_water)
          IN /\ eng_emitted' = eng_emitted \o Emit(InKeyOrder(flushed), By.Flush)
             /\ eng_buffer' = eng_buffer \ flushed
             /\ eng_path' = <<Eng.Flushing, Eng.Accumulating>>
     ELSE /\ eng_path' = <<>>
          /\ UNCHANGED <<eng_buffer, eng_emitted>>
  /\ UNCHANGED <<eng_mode, eng_state, eng_high_water, eng_inserted,
                 eng_rejected, eng_failed>>

\* end of stream: drain and close
NotifyEndOfStream ==
  /\ ~eng_failed
  /\ IF eng_state = Eng.Accumulating
     THEN LET drained == Drainable(eng_buffer, eng_high_water)
          IN /\ eng_emitted' = eng_emitted \o Emit(InKeyOrder(drained), By.Drain)
             /\ eng_buffer' = eng_buffer \ drained
             /\ eng_state' = Eng.Closed
             /\ eng_path' = <<Eng.Draining, Eng.Closed>>
             /\ eng_failed' = FALSE
     ELSE /\ eng_failed' = TRUE
          /\ eng_path' = <<>>
          /\ UNCHANGED <<eng_state, eng_buffer, eng_emitted>>
  /\ UNCHANGED <<eng_mode, eng_high_water, eng_inserted, eng_ticks,
                 eng_rejected>>

(***************************************************************************)
(* perfetto command line client (PerfettoCmd), perfetto_cmd.cc.            *)
(*                                                                         *)
(* The command line is a sequence of options, each with its argument; the  *)
(* keys of --detach, --attach and --is_detached are non-empty.  A config   *)
(* file is known by its name; what matters of its content is               *)
(* write_into_file, output_path and whether activate_triggers is empty.    *)
(***************************************************************************)

\* number of arguments on the command line
MaxArgs == 3

\* base::nullopt of ParseCmdlineAndMaybeDaemonize: no exit code yet
Nullopt == -1

NoOptarg == ""

\* content of the trace config files that -c can name
ConfigFiles ==
  [plain    |-> [write_into_file |-> FALSE, output_path |-> "", activate_triggers |-> FALSE],
   wif      |-> [write_into_file |-> TRUE,  output_path |-> "", activate_triggers |-> FALSE],
   wif_path |-> [write_into_file |-> TRUE,  output_path |-> "/trace", activate_triggers |-> FALSE],
   triggers |-> [write_into_file |-> FALSE, output_path |-> "", activate_triggers |-> TRUE]]

\* a path that base::ReadFile cannot open
MissingFile == "missing"

\* new TraceConfig()
EmptyTraceConfig ==
  [write_into_file |-> FALSE, output_path |-> "", activate_triggers |-> FALSE]

\* the configs CreateConfigFromOptions can build from -t/-b/-s/-a and the
\* categories (-s sets a file size limit and with it write_into_file)
OptionConfigs == {ConfigFiles.plain, ConfigFiles.wif}

Arg(opt, optarg) == [opt |-> opt, optarg |-> optarg]

\* long_options[] and the positional arguments
Options ==
  {Arg("c", f) : f \in DOMAIN ConfigFiles \cup {MissingFile}} \cup
  {Arg("o", "/out"), Arg("d", NoOptarg), Arg("D", NoOptarg),
   Arg("t", "10s"), Arg("ATRACE_CAT", "sched"),
   Arg("upload", NoOptarg), Arg("no-guardrails", NoOptarg),
   Arg("reset-guardrails", NoOptarg),
   Arg("detach", "key"), Arg("attach", "key"), Arg("is_detached", "key"),
   Arg("stop", NoOptarg), Arg("query", NoOptarg), Arg("query-raw", NoOptarg),
   Arg("version", NoOptarg), Arg("save-for-bugreport", NoOptarg),
   Arg("h", NoOptarg)}

\* the members of PerfettoCmd and the locals of the parser, as constructed
NewPerfettoCmd ==
  [trace_config_raw |-> "",
   has_config_options |-> FALSE,
   trace_out_path_ |-> "",
   background_ |-> FALSE,
   background_wait_ |-> FALSE,
   upload_flag_ |-> FALSE,
   ignore_guardrails_ |-> FALSE,
   detach_key_ |-> "",
   attach_key_ |-> "",
   redetach_once_attached_ |-> FALSE,
   stop_trace_once_attached_ |-> FALSE,
   query_service_ |-> FALSE,
   query_service_output_raw_ |-> FALSE,
   bugreport_ |-> FALSE,
   trace_config_ |-> EmptyTraceConfig,
   triggers_to_activate_ |-> FALSE,
   save_to_incidentd_ |-> FALSE,
   trace_out_stream_ |-> FALSE,
   packet_writer_ |-> FALSE,
   trace_data_timeout_armed_ |-> FALSE,
   update_guardrail_state_ |-> FALSE]

is_detach(c) == c.detach_key_ # ""

is_attach(c) == c.attach_key_ # ""

Continue(c) == [cmd |-> c, ret |-> Nullopt]

ReturnCode(c, code) == [cmd |-> c, ret |-> code]

\* one round of the getopt_long loop
ParseOption(c, a, android) ==
  CASE a.opt = "c" ->
         IF a.optarg = MissingFile THEN ReturnCode(c, 1)
         ELSE Continue([c EXCEPT !.trace_config_raw = a.optarg])
    [] a.opt = "o" -> Continue([c EXCEPT !.trace_out_path_ = a.optarg])
    [] a.opt = "d" -> Continue([c EXCEPT !.background_ = TRUE])
    [] a.opt = "D" -> Continue([c EXCEPT !.background_ = TRUE,
                                         !.background_wait_ = TRUE])
    [] a.opt = "t" -> Continue([c EXCEPT !.has_config_options = TRUE])
    [] a.opt = "upload" ->
         IF android THEN Continue([c EXCEPT !.upload_flag_ = TRUE])
         ELSE ReturnCode(c, 1)
    [] a.opt = "no-guardrails" -> Continue([c EXCEPT !.ignore_guardrails_ = TRUE])
    [] a.opt = "reset-guardrails" -> ReturnCode(c, 0)
    [] a.opt = "detach" -> Continue([c EXCEPT !.detach_key_ = a.optarg])
    [] a.opt = "attach" -> Continue([c EXCEPT !.attach_key_ = a.optarg])
    [] a.opt = "is_detached" ->
         Continue([c EXCEPT !.attach_key_ = a.optarg,
                            !.redetach_once_attached_ = TRUE])
    [] a.opt = "stop" -> Continue([c EXCEPT !.stop_trace_once_attached_ = TRUE])
    [] a.opt = "query" -> Continue([c EXCEPT !.query_service_ = TRUE])
    [] a.opt = "query-raw" ->
         Continue([c EXCEPT !.query_service_ = TRUE,
                            !.query_service_output_raw_ = TRUE])
    [] a.opt = "version" -> ReturnCode(c, 0)
    [] a.opt = "save-for-bugreport" -> Continue([c EXCEPT !.bugreport_ = TRUE])
    [] a.opt = "ATRACE_CAT" -> Continue(c)
    [] OTHER -> ReturnCode(c, 1)

RECURSIVE ParseOptions(_, _, _, _)
\* for (;;) { option = getopt_long(...) ... }: the options in order; the
\* positional arguments are left for after the loop
ParseOptions(c, args, i, android) ==
  IF i > Len(args) THEN Continue(c)
  ELSE LET r == ParseOption(c, args[i], android)
       IN IF r.ret # Nullopt THEN r
          ELSE ParseOptions(r.cmd, args, i + 1, android)

\* for (i = optind; i < argc; i++): the categories
ParsePositional(c, args) ==
  IF \E i \in 1..Len(args) : args[i].opt = "ATRACE_CAT"
  THEN [c EXCEPT !.has_config_options = TRUE]
  ELSE c

\* mutant: --query is not checked against --detach, --attach, --background
QueryCombinationAllowed(c) == FALSE

QueryCombination(c) ==
  c.query_service_ /\ (is_detach(c) \/ is_attach(c) \/ c.background_)

\* mutant: --stop is accepted without --attach
ExclusiveOptionsWithoutStop(c) ==
  \/ is_detach(c) /\ is_attach(c)
  \/ is_detach(c) /\ c.background_

\* --attach with --detach, --detach with --background, --stop without --attach
ExclusiveOptions(c) ==
  \/ is_detach(c) /\ is_attach(c)
  \/ is_detach(c) /\ c.background_
  \/ c.stop_trace_once_attached_ /\ ~is_attach(c)

BugreportCombination(c) ==
  c.bugreport_ /\ (is_attach(c) \/ is_detach(c) \/ c.query_service_ \/
                   c.has_config_options \/ c.background_wait_)

will_trace(c) == ~is_attach(c) /\ ~c.query_service_ /\ ~c.bugreport_

\* mutant: --detach is accepted whatever write_into_file
DetachNeedsWriteIntoFileNot(c) == FALSE

DetachNeedsWriteIntoFile(c) ==
  is_detach(c) /\ ~c.trace_config_.write_into_file

\* the checks after the option loop, the trace config and the output file;
\* options_config is what CreateConfigFromOptions builds, file_exists and
\* open_ok are the answers of the file system
ValidateAndOpen(c0, args, options_config, file_exists, open_ok) ==
  LET c1 == ParsePositional(c0, args) IN
  IF QueryCombination(c1) \/ ExclusiveOptions(c1) \/ BugreportCombination(c1)
  THEN ReturnCode(c1, 1)
  ELSE IF ~will_trace(c1) /\ (c1.trace_config_raw # "" \/ c1.has_config_options)
  THEN ReturnCode(c1, 1)
  ELSE IF will_trace(c1) /\ c1.has_config_options /\ c1.trace_config_raw # ""
  THEN ReturnCode(c1, 1)
  ELSE IF will_trace(c1) /\ ~c1.has_config_options /\ c1.trace_config_raw = ""
  THEN ReturnCode(c1, 1)
  ELSE
  LET parsed_config ==
        IF ~will_trace(c1) THEN EmptyTraceConfig
        ELSE IF c1.has_config_options THEN options_config
        ELSE ConfigFiles[c1.trace_config_raw]
      c2 == [c1 EXCEPT !.trace_config_ = parsed_config,
                       !.trace_config_raw = "",
                       !.save_to_incidentd_ = c1.upload_flag_]
  IN
  IF ~parsed_config.activate_triggers /\ c2.upload_flag_
  THEN ReturnCode(c2, 1)
  ELSE IF c2.trace_out_path_ # "" /\ c2.upload_flag_
  THEN ReturnCode(c2, 1)
  ELSE IF parsed_config.output_path # "" /\
          (c2.trace_out_path_ # "" \/ c2.upload_flag_ \/ file_exists)
  THEN ReturnCode(c2, 1)
  ELSE
  LET c3 == IF parsed_config.activate_triggers
            THEN [c2 EXCEPT !.triggers_to_activate_ = TRUE,
                            !.trace_config_ = EmptyTraceConfig]
            ELSE c2
      no_file == \/ ~will_trace(c3)
                 \/ c3.triggers_to_activate_
                 \/ (c3.trace_config_.write_into_file /\
                     c3.trace_config_.output_path # "")
  IN
  IF ~will_trace(c3) /\ (c3.trace_out_path_ # "" \/ c3.upload_flag_)
  THEN ReturnCode(c3, 1)
  ELSE IF ~no_file /\ c3.trace_out_path_ = "" /\ ~c3.upload_flag_
  THEN ReturnCode(c3, 1)
  ELSE IF ~no_file /\ DetachNeedsWriteIntoFile(c3)
  THEN ReturnCode(c3, 1)
  ELSE IF ~no_file /\ ~open_ok
  THEN ReturnCode(c3, 1)
  ELSE
  LET c4 == IF no_file THEN c3
            ELSE [c3 EXCEPT !.trace_out_stream_ = TRUE,
                            !.packet_writer_ = ~c3.trace_config_.write_into_file]
  IN
  IF c4.save_to_incidentd_ /\ ~c4.ignore_guardrails_
  THEN ReturnCode(c4, 1)
  ELSE Continue(c4)

\* ParseCmdlineAndMaybeDaemonize up to the daemonization
ParseCmdline(args, android, options_config, file_exists, open_ok) ==
  IF Len(args) = 0 THEN ReturnCode(NewPerfettoCmd, 1)
  ELSE LET r == ParseOptions(NewPerfettoCmd, args, 1, android)
       IN IF r.ret # Nullopt THEN r
          ELSE ValidateAndOpen(r.cmd, args, options_config, file_exists, open_ok)

\* number of OnTraceData callbacks explored
MaxPackets == 2
\* number of timer-driven CheckTraceDataTimeout runs explored
MaxChecks == 2
\* number of OnObservableEvents callbacks explored
MaxObservable == 2
\* number of SIGINT/SIGTERM deliveries explored
MaxSignals == 1

\* where the process is: before ParseCmdlineAndMaybeDaemonize, before
\* ConnectToServiceRunAndMaybeNotify, inside task_runner_.Run(), after
\* task_runner_.Quit() (Run() returns), after exit
Pc ==
  [Main |-> "main", Connect |-> "connect", Run |-> "run", Quit |-> "quit",
   Exited |-> "exited"]

\* BgProcessStatus
kBackgroundOk == "kBackgroundOk"
kBackgroundOtherError == "kBackgroundOtherError"
kBackgroundTimeout == "kBackgroundTimeout"

\* the foreground process left by base::Daemonize
Fg ==
  [None |-> "no foreground process", Waiting |-> "WaitOnBgProcessPipe",
   ReturnedZero |-> "return 0"]

\* calls on consumer_endpoint_
Ipc ==
  [ObserveEvents |-> "ObserveEvents",
   QueryServiceState |-> "QueryServiceState",
   SaveTraceForBugreport |-> "SaveTraceForBugreport",
   Attach |-> "Attach",
   Detach |-> "Detach",
   EnableTracing |-> "EnableTracing",
   Flush |-> "Flush",
   DisableTracing |-> "DisableTracing",
   ReadBuffers |-> "ReadBuffers"]

\* the latest of the callbacks the OnTraceData watchdog depends on
Wd == [None |-> "none", Check |-> "CheckTraceDataTimeout", Data |-> "OnTraceData"]

\* exit status of a process killed by a null dereference (128 + SIGSEGV)
kSigSegvStatus == 128 + 11

\* outcomes of packet_writer_->WritePackets() on a null packet_writer_
NullWriterOutcomes == {"fault", "nothing"}

\* what the service and the task runner still owe the client
NoService ==
  [connecting |-> FALSE, ctrl_c |-> FALSE, attach_req |-> FALSE,
   detach_req |-> FALSE, query_req |-> FALSE, bugreport_req |-> FALSE,
   session |-> FALSE, disabled |-> FALSE, reading |-> FALSE, flush_req |-> 0,
   observe |-> FALSE, timeout_posted |-> FALSE, watchdog_posted |-> FALSE,
   n_data |-> 0, n_checks |-> 0, n_obs |-> 0, n_signals |-> 0]

NoPipe == [wr |-> FALSE, bytes |-> <<>>]

CmdInit ==
  /\ argv \in UNION {[1..n -> Options] : n \in 0..MaxArgs}
  /\ cmd = NewPerfettoCmd
  /\ pc = Pc.Main
  /\ exit_code = Nullopt
  /\ svc = NoService
  /\ ipc = {}
  /\ finalized = 0
  /\ last_wd = Wd.None
  /\ pipe = NoPipe
  /\ fg = Fg.None
  /\ atoms = {}

\* a client that is never started
CmdIdle ==
  /\ argv = <<>>
  /\ cmd = NewPerfettoCmd
  /\ pc = Pc.Exited
  /\ exit_code = Nullopt
  /\ svc = NoService
  /\ ipc = {}
  /\ finalized = 0
  /\ last_wd = Wd.None
  /\ pipe = NoPipe
  /\ fg = Fg.None
  /\ atoms = {}

\* mutant: the write end stays open after the status byte
NotifyBgProcessPipeKeepsOpen(p, bg_status) ==
  IF ~p.wr THEN p ELSE [wr |-> TRUE, bytes |-> Append(p.bytes, bg_status)]

NotifyBgProcessPipe(p, bg_status) ==
  IF ~p.wr THEN p ELSE [wr |-> FALSE, bytes |-> Append(p.bytes, bg_status)]

\* the process is gone: its end of the pipe is closed
ProcessExit(code) ==
  /\ pc' = Pc.Exited
  /\ exit_code' = code
  /\ pipe' = [pipe EXCEPT !.wr = FALSE]

\* the effect of FinalizeTraceAndExit() on the members
FinalizeTraceAndExit(c) ==
  [c EXCEPT !.packet_writer_ = FALSE,
            !.trace_out_stream_ = c.save_to_incidentd_ /\ c.trace_out_stream_,
            !.update_guardrail_state_ = TRUE]

\* ParseCmdlineAndMaybeDaemonize(): an exit code ends the process; otherwise
\* the process forks when background_ is set and goes on to connect
ParseCmdlineAndMaybeDaemonize(android, options_config, file_exists, open_ok) ==
  /\ pc = Pc.Main
  /\ LET r == ParseCmdline(argv, android, options_config, file_exists, open_ok)
     IN IF r.ret # Nullopt
        THEN /\ ProcessExit(r.ret)
             /\ UNCHANGED <<argv, cmd, fg>>
        ELSE /\ cmd' = r.cmd
             /\ argv' = <<>>
             /\ pc' = Pc.Connect
             /\ exit_code' = exit_code
             /\ pipe' = [wr |-> r.cmd.background_wait_, bytes |-> <<>>]
             /\ fg' = IF r.cmd.background_wait_ THEN Fg.Waiting
                      ELSE IF r.cmd.background_ THEN Fg.ReturnedZero
                      ELSE Fg.None
  /\ UNCHANGED <<svc, ipc, finalized, last_wd, atoms>>

\* return from main with the exit code of ConnectToServiceAndRun()
MainReturns(code) ==
  /\ pc' = Pc.Exited
  /\ exit_code' = code
  /\ pipe' = [NotifyBgProcessPipe(pipe, IF code = 0 THEN kBackgroundOk
                                        ELSE kBackgroundOtherError)
              EXCEPT !.wr = FALSE]

\* mutant: a triggers run is not told apart from a tracing run
OnlyActivatesTriggersNever(c) == FALSE

\* if (!triggers_to_activate_.empty())
OnlyActivatesTriggers(c) == c.triggers_to_activate_

\* ConnectToServiceAndRun() up to task_runner_.Run() (the run of the
\* TriggerProducer included); kTraceBegin stands for kBackgroundTraceBegin
\* too, the atom of a config with a trigger timeout
ConnectToServiceAndRun(triggers_ok, should_trace) ==
  /\ pc = Pc.Connect
  /\ IF OnlyActivatesTriggers(cmd)
     THEN /\ MainReturns(IF triggers_ok THEN 0 ELSE 1)
          /\ svc' = svc
          /\ atoms' = atoms \cup {"kTriggerBegin",
                                  IF triggers_ok THEN "kTriggerSuccess"
                                  ELSE "kTriggerFailure"}
     ELSE IF cmd.query_service_ \/ cmd.bugreport_
     THEN /\ svc' = [svc EXCEPT !.connecting = TRUE]
          /\ pc' = Pc.Run
          /\ UNCHANGED <<exit_code, pipe, atoms>>
     ELSE IF ~should_trace
     THEN /\ MainReturns(1)
          /\ svc' = svc
          /\ atoms' = atoms \cup {"kTraceBegin", "kHitGuardrails"}
     ELSE /\ svc' = [svc EXCEPT !.connecting = TRUE, !.ctrl_c = TRUE]
          /\ pc' = Pc.Run
          /\ atoms' = atoms \cup {"kTraceBegin"}
          /\ UNCHANGED <<exit_code, pipe>>
  /\ UNCHANGED <<argv, cmd, ipc, finalized, last_wd, fg>>

\* task_runner_.Run() has returned
RunReturns(on_trace_done) ==
  /\ pc = Pc.Quit
  /\ MainReturns(IF cmd.query_service_ \/ cmd.bugreport_ THEN 1
                 ELSE IF on_trace_done THEN 0 ELSE 1)
  /\ UNCHANGED <<argv, cmd, svc, ipc, finalized, last_wd, fg, atoms>>

\* PerfettoCmd::OnConnect(); has_duration: expected_duration_ms_ is not zero
OnConnect(has_duration) ==
  /\ pc = Pc.Run
  /\ svc.connecting
  /\ LET observe == IF cmd.background_wait_ THEN {Ipc.ObserveEvents} ELSE {}
         s == [svc EXCEPT !.connecting = FALSE, !.observe = cmd.background_wait_]
     IN IF cmd.query_service_
        THEN /\ ipc' = ipc \cup observe \cup {Ipc.QueryServiceState}
             /\ svc' = [s EXCEPT !.query_req = TRUE]
        ELSE IF cmd.bugreport_
        THEN /\ ipc' = ipc \cup observe \cup {Ipc.SaveTraceForBugreport}
             /\ svc' = [s EXCEPT !.bugreport_req = TRUE]
        ELSE IF is_attach(cmd)
        THEN /\ ipc' = ipc \cup observe \cup {Ipc.Attach}
             /\ svc' = [s EXCEPT !.attach_req = TRUE]
        ELSE IF is_detach(cmd)
        THEN /\ ipc' = ipc \cup observe \cup {Ipc.EnableTracing, Ipc.Detach}
             /\ svc' = [s EXCEPT !.session = TRUE, !.detach_req = TRUE]
        ELSE /\ ipc' = ipc \cup observe \cup {Ipc.EnableTracing}
             /\ svc' = [s EXCEPT !.session = TRUE, !.timeout_posted = has_duration]
  /\ atoms' = atoms \cup {"kOnConnect"}
  /\ UNCHANGED <<argv, cmd, pc, exit_code, finalized, last_wd, pipe, fg>>

\* the callback of QueryServiceState(): exit(success ? 0 : 1)
OnQueryServiceState(success) ==
  /\ pc = Pc.Run
  /\ svc.query_req
  /\ ProcessExit(IF success THEN 0 ELSE 1)
  /\ svc' = [svc EXCEPT !.query_req = FALSE]
  /\ UNCHANGED <<argv, cmd, ipc, finalized, last_wd, fg, atoms>>

\* the callback of SaveTraceForBugreport(): exit(0) or exit(1)
OnSaveTraceForBugreport(success) ==
  /\ pc = Pc.Run
  /\ svc.bugreport_req
  /\ ProcessExit(IF success THEN 0 ELSE 1)
  /\ svc' = [svc EXCEPT !.bugreport_req = FALSE]
  /\ UNCHANGED <<argv, cmd, ipc, finalized, last_wd, fg, atoms>>

\* PerfettoCmd::OnDisconnect()
OnDisconnect ==
  /\ pc = Pc.Run
  /\ pc' = Pc.Quit
  /\ UNCHANGED <<argv, cmd, exit_code, svc, ipc, finalized, last_wd, pipe, fg, atoms>>

\* PerfettoCmd::OnTimeout()
OnTimeout ==
  /\ pc = Pc.Run
  /\ svc.timeout_posted
  /\ svc' = [svc EXCEPT !.timeout_posted = FALSE]
  /\ pc' = Pc.Quit
  /\ atoms' = atoms \cup {"kOnTimeout"}
  /\ UNCHANGED <<argv, cmd, exit_code, ipc, finalized, last_wd, pipe, fg>>

\* mutant: the watchdog does not look at trace_data_timeout_armed_
WatchdogExpiredAlways(c) == TRUE

\* if (trace_data_timeout_armed_)
WatchdogExpired(c) == c.trace_data_timeout_armed_

\* PerfettoCmd::CheckTraceDataTimeout() run by the task runner
CheckTraceDataTimeout ==
  /\ pc = Pc.Run
  /\ svc.watchdog_posted
  /\ svc.n_checks < MaxChecks
  /\ svc' = [svc EXCEPT !.n_checks = @ + 1]
  /\ last_wd' = Wd.Check
  /\ IF WatchdogExpired(cmd)
     THEN /\ cmd' = [FinalizeTraceAndExit(cmd) EXCEPT !.trace_data_timeout_armed_ = TRUE]
          /\ finalized' = finalized + 1
          /\ atoms' = atoms \cup {"kFinalizeTraceAndExit"}
          /\ pc' = Pc.Quit
     ELSE /\ cmd' = [cmd EXCEPT !.trace_data_timeout_armed_ = TRUE]
          /\ UNCHANGED <<finalized, pc, atoms>>
  /\ UNCHANGED <<argv, exit_code, ipc, pipe, fg>>

\* PerfettoCmd::OnTraceData(); write_ok is the result of WritePackets(),
\* outcome what a call through a null packet_writer_ does
OnTraceData(write_ok, has_more, outcome) ==
  /\ pc = Pc.Run
  /\ svc.reading
  /\ svc.n_data < MaxPackets
  /\ svc' = [svc EXCEPT !.n_data = @ + 1, !.reading = has_more]
  /\ last_wd' = Wd.Data
  /\ IF ~cmd.packet_writer_ /\ outcome = "fault"
     THEN /\ ProcessExit(kSigSegvStatus)
          /\ cmd' = [cmd EXCEPT !.trace_data_timeout_armed_ = FALSE]
          /\ UNCHANGED <<finalized, atoms>>
     ELSE LET c0 == [cmd EXCEPT !.trace_data_timeout_armed_ = FALSE]
              c1 == IF ~write_ok THEN FinalizeTraceAndExit(c0) ELSE c0
              c2 == IF ~has_more THEN FinalizeTraceAndExit(c1) ELSE c1
              runs == (IF ~write_ok THEN 1 ELSE 0) + (IF ~has_more THEN 1 ELSE 0)
          IN /\ cmd' = c2
             /\ finalized' = finalized + runs
             /\ atoms' = IF runs > 0 THEN atoms \cup {"kFinalizeTraceAndExit"}
                         ELSE atoms
             /\ pc' = IF runs > 0 THEN Pc.Quit ELSE pc
             /\ UNCHANGED <<exit_code, pipe>>
  /\ UNCHANGED <<argv, ipc, fg>>

\* mutant: the buffers are read back whatever write_into_file
ReadsBuffersAlways(c) == TRUE

\* if (trace_config_->write_into_file()) return FinalizeTraceAndExit();
ReadsBuffers(c) == ~c.trace_config_.write_into_file

\* PerfettoCmd::OnTracingDisabled(); has_error: error is not empty
OnTracingDisabled(has_error) ==
  /\ pc = Pc.Run
  /\ svc.session
  /\ IF has_error
     THEN /\ cmd' = [cmd EXCEPT !.update_guardrail_state_ = TRUE]
          /\ svc' = [svc EXCEPT !.session = FALSE, !.disabled = TRUE]
          /\ pc' = Pc.Quit
          /\ UNCHANGED <<ipc, finalized, last_wd, atoms>>
     ELSE IF ~ReadsBuffers(cmd)
     THEN /\ cmd' = FinalizeTraceAndExit(cmd)
          /\ finalized' = finalized + 1
          /\ atoms' = atoms \cup {"kOnTracingDisabled", "kFinalizeTraceAndExit"}
          /\ svc' = [svc EXCEPT !.session = FALSE, !.disabled = TRUE]
          /\ pc' = Pc.Quit
          /\ UNCHANGED <<ipc, last_wd>>
     ELSE LET c0 == [cmd EXCEPT !.trace_data_timeout_armed_ = FALSE]
              expired == WatchdogExpired(c0)
              c1 == IF expired THEN FinalizeTraceAndExit(c0) ELSE c0
          IN /\ cmd' = [c1 EXCEPT !.trace_data_timeout_armed_ = TRUE]
             /\ finalized' = IF expired THEN finalized + 1 ELSE finalized
             /\ atoms' = atoms \cup {"kOnTracingDisabled"} \cup
                           IF expired THEN {"kFinalizeTraceAndExit"} ELSE {}
             /\ pc' = IF expired THEN Pc.Quit ELSE pc
             /\ last_wd' = Wd.Check
             /\ svc' = [svc EXCEPT !.session = FALSE, !.disabled = TRUE,
                                   !.watchdog_posted = TRUE, !.reading = TRUE]
             /\ ipc' = ipc \cup {Ipc.ReadBuffers}
  /\ UNCHANGED <<argv, exit_code, pipe, fg>>

\* the file descriptor watch of SetupCtrlCSignalHandler()
OnCtrlC ==
  /\ pc = Pc.Run
  /\ svc.ctrl_c
  /\ svc.n_signals < MaxSignals
  /\ svc' = [svc EXCEPT !.n_signals = @ + 1, !.flush_req = @ + 1]
  /\ ipc' = ipc \cup {Ipc.Flush}
  /\ UNCHANGED <<argv, cmd, pc, exit_code, finalized, last_wd, pipe, fg, atoms>>

\* mutant: tracing is disabled only after a successful flush
DisablesAfterFlushOnSuccess(flush_success) == flush_success

\* consumer_endpoint_->DisableTracing() follows the if (!flush_success)
\* that only logs
DisablesAfterFlush(flush_success) == TRUE

\* the callback of Flush()
OnFlush(flush_success) ==
  /\ pc = Pc.Run
  /\ svc.flush_req > 0
  /\ svc' = [svc EXCEPT !.flush_req = @ - 1]
  /\ ipc' = IF DisablesAfterFlush(flush_success)
            THEN ipc \cup {Ipc.DisableTracing} ELSE ipc
  /\ UNCHANGED <<argv, cmd, pc, exit_code, finalized, last_wd, pipe, fg, atoms>>

\* PerfettoCmd::OnDetach()
OnDetach(success) ==
  /\ pc = Pc.Run
  /\ svc.detach_req
  /\ svc' = [svc EXCEPT !.detach_req = FALSE]
  /\ ProcessExit(IF success THEN 0 ELSE 1)
  /\ UNCHANGED <<argv, cmd, ipc, finalized, last_wd, fg, atoms>>

\* mutant: a failed attach exits with the general error code
AttachFailedExitCodeGeneral == 2 - 1

\* exit(2) of OnAttach()
AttachFailedExitCode == 2

\* PerfettoCmd::OnAttach(); trace_config is the config of the session
OnAttach(success, trace_config) ==
  /\ pc = Pc.Run
  /\ svc.attach_req
  /\ IF ~success
     THEN /\ ProcessExit(AttachFailedExitCode)
          /\ svc' = [svc EXCEPT !.attach_req = FALSE]
          /\ UNCHANGED <<cmd, ipc>>
     ELSE IF cmd.redetach_once_attached_
     THEN /\ ipc' = ipc \cup {Ipc.Detach}
          /\ svc' = [svc EXCEPT !.attach_req = FALSE, !.session = TRUE,
                                !.detach_req = TRUE]
          /\ UNCHANGED <<cmd, pc, exit_code, pipe>>
     ELSE /\ cmd' = [cmd EXCEPT !.trace_config_ = trace_config]
          /\ ipc' = IF cmd.stop_trace_once_attached_
                    THEN ipc \cup {Ipc.Flush} ELSE ipc
          /\ svc' = [svc EXCEPT !.attach_req = FALSE, !.session = TRUE,
                                !.flush_req = IF cmd.stop_trace_once_attached_
                                              THEN @ + 1 ELSE @]
          /\ UNCHANGED <<pc, exit_code, pipe>>
  /\ UNCHANGED <<argv, finalized, last_wd, fg, atoms>>

\* PerfettoCmd::OnObservableEvents()
OnObservableEvents(all_data_sources_started) ==
  /\ pc = Pc.Run
  /\ svc.observe
  /\ svc.n_obs < MaxObservable
  /\ svc' = [svc EXCEPT !.n_obs = @ + 1]
  /\ pipe' = IF all_data_sources_started
             THEN NotifyBgProcessPipe(pipe, kBackgroundOk)
             ELSE pipe
  /\ UNCHANGED <<argv, cmd, pc, exit_code, ipc, finalized, last_wd, fg, atoms>>

\* WaitOnBgProcessPipe() in the foreground process: poll() times out
WaitOnBgProcessPipeTimeout ==
  /\ fg = Fg.Waiting
  /\ pipe.wr
  /\ pipe.bytes = <<>>
  /\ fg' = kBackgroundTimeout
  /\ UNCHANGED <<argv, cmd, pc, exit_code, svc, ipc, finalized, last_wd, pipe, atoms>>

\* WaitOnBgProcessPipe() in the foreground process: poll() and read() return
WaitOnBgProcessPipeRead ==
  /\ fg = Fg.Waiting
  /\ pipe.bytes # <<>> \/ ~pipe.wr
  /\ fg' = IF pipe.bytes = <<>> THEN kBackgroundOtherError
           ELSE IF pipe.bytes[1] # kBackgroundOk THEN pipe.bytes[1]
           ELSE kBackgroundOk
  /\ UNCHANGED <<argv, cmd, pc, exit_code, svc, ipc, finalized, last_wd, pipe, atoms>>

(***************************************************************************)
(* UI slice track (BaseSliceTrack.maybeRequestData)                        *)
(*                                                                         *)
(* JavaScript runs one task at a time: an async call runs up to its next   *)
(* await, and its continuation runs when the awaited promise settles.      *)
(***************************************************************************)

\* number of renderCanvas() calls explored
MaxFrames == 4
\* the visible windows lie in 0..MaxNs nanoseconds
MaxNs == 2
\* the resolutions are 1..MaxResolutionNs nanoseconds
MaxResolutionNs == 2
\* the maximum slice duration reported by the engine is in 0..MaxDur
MaxDur == 1

\* visibleWindowTime and getCurResolution(), in nanoseconds
Viewports ==
  {[startNs |-> a, endNs |-> b, resolutionNs |-> r] :
     a \in 0..MaxNs, b \in 0..MaxNs, r \in 1..MaxResolutionNs}

\* the fields of a new track
NewBaseSliceTrack ==
  [sqlState |-> "UNINITIALIZED",
   slicesStartNs |-> -1,
   slicesEndNs |-> -1,
   slicesBucketNs |-> -1,
   maxDurNs |-> 0]

\* a call suspended at an await, with the locals its continuation reads
Await(what, startNs, endNs, bucketNs) ==
  [await |-> what, startNs |-> startNs, endNs |-> endNs, bucketNs |-> bucketNs]


TrackInit ==
  /\ track = NewBaseSliceTrack
  /\ pending = <<>>
  /\ viz \in {w \in Viewports : w.startNs < w.endNs}
  /\ frames = 0
  /\ queries = 0

\* a track that is never drawn
TrackIdle ==
  /\ track = NewBaseSliceTrack
  /\ pending = <<>>
  /\ viz = [startNs |-> 0, endNs |-> 0, resolutionNs |-> 1]
  /\ frames = 0
  /\ queries = 0

\* mutant: only the initialisation holds further calls back
QueryInFlightOnlyInitializing(sqlState) == sqlState = "INITIALIZING"

\* sqlState === 'INITIALIZING' || sqlState === 'QUERY_PENDING'
QueryInFlight(sqlState) == sqlState \in {"INITIALIZING", "QUERY_PENDING"}

\* the visible window is inside the cached bounds at the same resolution
HaveDataAlready(tr, w) ==
  /\ w.startNs >= tr.slicesStartNs
  /\ w.endNs <= tr.slicesEndNs
  /\ w.resolutionNs = tr.slicesBucketNs

\* maybeRequestData() from the bounds check to the await of the slice query:
\* the track after it and the calls it leaves suspended
RequestSlices(tr, w) ==
  IF HaveDataAlready(tr, w)
  THEN [track |-> tr, suspended |-> <<>>]
  ELSE [track |-> [tr EXCEPT !.sqlState = "QUERY_PENDING"],
        suspended |-> <<Await("slices", w.startNs, w.endNs, w.resolutionNs)>>]

\* convertQueryResultToSlices(): the cached bounds become those of the query
convertQueryResultToSlices(tr, startNs, endNs, bucketNs) ==
  [tr EXCEPT !.slicesStartNs = startNs,
             !.slicesEndNs = endNs,
             !.slicesBucketNs = bucketNs]

Without(seq, i) == SubSeq(seq, 1, i - 1) \o SubSeq(seq, i + 1, Len(seq))

\* renderCanvas() calls maybeRequestData(), which runs up to its first await
\* or return
maybeRequestData ==
  /\ frames < MaxFrames
  /\ frames' = frames + 1
  /\ IF track.sqlState = "UNINITIALIZED"
     THEN /\ track' = [track EXCEPT !.sqlState = "INITIALIZING"]
          /\ pending' = Append(pending, Await("DROP VIEW", -1, -1, -1))
          /\ queries' = queries + 1
     ELSE IF QueryInFlight(track.sqlState)
     THEN UNCHANGED <<track, pending, queries>>
     ELSE LET r == RequestSlices(track, viz)
          IN /\ track' = r.track
             /\ pending' = pending \o r.suspended
             /\ queries' = queries + Len(r.suspended)
  /\ viz' = viz

\* the promise awaited by the i-th suspended call resolves and the call
\* continues up to its next await or to its end; maxDur is the result of
\* the max(dur) query
QueryResolves(i, maxDur) ==
  /\ i \in 1..Len(pending)
  /\ LET rest == Without(pending, i)
         at == pending[i]
     IN CASE at.await = "DROP VIEW" ->
               /\ pending' = Append(rest, Await("initSqlTable", -1, -1, -1))
               /\ UNCHANGED <<track, queries>>
          [] at.await = "initSqlTable" ->
               /\ pending' = Append(rest, Await("maxDur", -1, -1, -1))
               /\ queries' = queries + 1
               /\ track' = track
          [] at.await = "maxDur" ->
               LET r == RequestSlices([track EXCEPT !.maxDurNs = maxDur,
                                                    !.sqlState = "QUERY_DONE"],
                                      viz)
               IN /\ track' = r.track
                  /\ pending' = rest \o r.suspended
                  /\ queries' = queries + Len(r.suspended)
          [] OTHER ->
               /\ track' = [convertQueryResultToSlices(track, at.startNs,
                                                       at.endNs, at.bucketNs)
                            EXCEPT !.sqlState = "QUERY_DONE"]
               /\ pending' = rest
               /\ queries' = queries
  /\ UNCHANGED <<viz, frames>>

\* the promise awaited by the i-th suspended call is rejected: the call ends
\* with the exception and leaves sqlState as it is
QueryRejects(i) ==
  /\ i \in 1..Len(pending)
  /\ pending' = Without(pending, i)
  /\ UNCHANGED <<track, viz, frames, queries>>

\* the user pans or zooms
PanOrZoom(w) ==
  /\ w.startNs < w.endNs
  /\ w # viz
  /\ viz' = w
  /\ UNCHANGED <<track, pending, frames, queries>>

(***************************************************************************)
(* Sniffer harness: inputs and calls                                       *)
(***************************************************************************)

\* the tail fragment is placed right after the head, or at an offset in
\* (32 - MaxBack) .. (32 + MaxFwd)
MaxBack == 9
MaxFwd == 1

NoCall == "NoCall"

Heads1 ==
  { <<>>, kFuchsiaMagicNumber, SubSeq(kFuchsiaMagicNumber, 1, 7),
    JsonObjectStart, JsonArrayStart, <<123>>, <<91>>,
    SystraceHeader, HtmlDoctype, HtmlTag, CtraceHeader, NinjaLogHeader,
    LeadingSpace, GzipMagic, <<31>>, ProtoFirstByte, <<9>>, <<120>>, <<0>> }

Heads2 ==
  { <<>>, JsonObjectStart, <<123>>, <<34>>, SystraceHeader, HtmlTag,
    CtraceHeader, NinjaLogHeader, LeadingSpace, ProtoFirstByte }

Tails == { <<>>, <<34>>, SystraceHeader, CtraceHeader }

\* filler bytes: 'x' and ' '
PadBytes == {120, 32}

Pad(n, b) == [i \in 1..n |-> b]

TailOffsets(headLen) ==
  {headLen} \cup {o \in (32 - MaxBack)..(32 + MaxFwd) : o >= headLen}

Inputs ==
  UNION { UNION { { (h1 \o h2) \o Pad(o - Len(h1 \o h2), p) \o t :
                      o \in TailOffsets(Len(h1 \o h2)), p \in PadBytes, t \in Tails }
                  : h2 \in Heads2 }
          : h1 \in Heads1 }

SniffIdle ==
  /\ buf = <<>>
  /\ kind = NoCall
  /\ kindAgain = NoCall
  /\ kindWindow = NoCall

\* a dispatcher that is constructed and never fed
FwdIdle ==
  /\ reader_ = Null
  /\ context_ = [json_trace_tokenizer |-> Null, json_trace_parser |-> Null,
                 fuchsia_trace_tokenizer |-> Null, fuchsia_trace_parser |-> Null,
                 systrace_trace_parser |-> Null, gzip_trace_parser |-> Null,
                 sorting_mode |-> kDefaultHeuristics, sorter |-> NullSorter,
                 pid_zero_ignored |-> 0]
  /\ guessed = <<>>
  /\ calls = <<>>
  /\ received = <<>>
  /\ eofs = 0
  /\ eof_calls = 0
  /\ status = OkStatus
  /\ feeds = 0
  /\ crashed = FALSE

SniffInit ==
  /\ buf \in Inputs
  /\ kind = NoCall
  /\ kindAgain = NoCall
  /\ kindWindow = NoCall
  /\ FwdIdle
  /\ EngIdle
  /\ CmdIdle
  /\ TrackIdle

\* first call on the caller's buffer
GuessCall ==
  /\ kind = NoCall
  /\ kind' = GuessTraceType(buf, Len(buf))
  /\ UNCHANGED <<buf, kindAgain, kindWindow>>
  /\ UNCHANGED fwdVars
  /\ UNCHANGED engVars
  /\ UNCHANGED cmdVars /\ UNCHANGED trackVars

\* second call on the same buffer
GuessAgainCall ==
  /\ kind # NoCall
  /\ kindAgain = NoCall
  /\ kindAgain' = GuessTraceType(buf, Len(buf))
  /\ UNCHANGED <<buf, kind, kindWindow>>
  /\ UNCHANGED fwdVars
  /\ UNCHANGED engVars
  /\ UNCHANGED cmdVars /\ UNCHANGED trackVars

\* call on a buffer that holds only the first 32 bytes
GuessWindowCall ==
  /\ kindAgain # NoCall
  /\ kindWindow = NoCall
  /\ kindWindow' = GuessTraceType(SubSeq(buf, 1, Min(Len(buf), 32)),
                                  Min(Len(buf), 32))
  /\ UNCHANGED <<buf, kind, kindAgain>>
  /\ UNCHANGED fwdVars
  /\ UNCHANGED engVars
  /\ UNCHANGED cmdVars /\ UNCHANGED trackVars

SniffNext == GuessCall \/ GuessAgainCall \/ GuessWindowCall

SniffSpec == SniffInit /\ [][SniffNext]_vars

(***************************************************************************)
(* Specification of the dispatcher                                         *)
(***************************************************************************)

Init == FwdInit /\ SniffIdle /\ EngIdle /\ CmdIdle /\ TrackIdle

ParseStep ==
  \E blob \in Blobs, tokenizer_status \in TokenizerStatuses :
    Parse(blob, tokenizer_status) /\ UNCHANGED sniffVars /\ UNCHANGED engVars
    /\ UNCHANGED cmdVars /\ UNCHANGED trackVars

NotifyEndOfFileStep ==
  \E outcome \in NullDerefOutcomes :
    NotifyEndOfFile(outcome) /\ UNCHANGED sniffVars /\ UNCHANGED engVars
    /\ UNCHANGED cmdVars /\ UNCHANGED trackVars

Next == ParseStep \/ NotifyEndOfFileStep

Spec == Init /\ [][Next]_vars

(***************************************************************************)
(* Specification of the reordering engine                                  *)
(***************************************************************************)

SorterInit == EngInit /\ SniffIdle /\ FwdIdle /\ CmdIdle /\ TrackIdle

InsertStep ==
  \E ts \in Timestamps, flush_now \in BOOLEAN :
    Insert(ts, flush_now) /\ UNCHANGED sniffVars /\ UNCHANGED fwdVars
      /\ UNCHANGED cmdVars /\ UNCHANGED trackVars

TickStep == Tick /\ UNCHANGED sniffVars /\ UNCHANGED fwdVars /\ UNCHANGED cmdVars /\ UNCHANGED trackVars

NotifyEndOfStreamStep ==
  NotifyEndOfStream /\ UNCHANGED sniffVars /\ UNCHANGED fwdVars
    /\ UNCHANGED cmdVars /\ UNCHANGED trackVars

SorterNext == InsertStep \/ TickStep \/ NotifyEndOfStreamStep

SorterSpec == SorterInit /\ [][SorterNext]_vars

(***************************************************************************)
(* Specification of the command line client                                *)
(***************************************************************************)

CmdFrame ==
  UNCHANGED sniffVars /\ UNCHANGED fwdVars /\ UNCHANGED engVars
    /\ UNCHANGED trackVars

PerfettoCmdInit == CmdInit /\ SniffIdle /\ FwdIdle /\ EngIdle /\ TrackIdle

\* one disjunct per step of main() and per callback of the task runner; the
\* quantified parameters are what the build, the file system, the rate
\* limiter and the service decide
CmdNext ==
  \/ LET given(opts) == \E i \in 1..Len(argv) : argv[i].opt \in opts
         \* an answer is read only when one of the options is given
         answers(opts) == IF given(opts) THEN BOOLEAN ELSE {FALSE}
     IN \E android \in answers({"upload"}),
           options_config \in IF given({"t", "ATRACE_CAT"}) THEN OptionConfigs
                              ELSE {ConfigFiles.plain},
           file_exists \in answers({"c"}),
           open_ok \in answers({"o", "upload"}) :
          ParseCmdlineAndMaybeDaemonize(android, options_config, file_exists,
                                        open_ok) /\ CmdFrame
  \/ \E triggers_ok \in BOOLEAN, should_trace \in BOOLEAN :
       ConnectToServiceAndRun(triggers_ok, should_trace) /\ CmdFrame
  \/ \E on_trace_done \in BOOLEAN : RunReturns(on_trace_done) /\ CmdFrame
  \/ \E has_duration \in BOOLEAN : OnConnect(has_duration) /\ CmdFrame
  \/ \E success \in BOOLEAN : OnQueryServiceState(success) /\ CmdFrame
  \/ \E success \in BOOLEAN : OnSaveTraceForBugreport(success) /\ CmdFrame
  \/ OnDisconnect /\ CmdFrame
  \/ OnTimeout /\ CmdFrame
  \/ CheckTraceDataTimeout /\ CmdFrame
  \/ \E write_ok \in BOOLEAN, has_more \in BOOLEAN,
        outcome \in NullWriterOutcomes :
       OnTraceData(write_ok, has_more, outcome) /\ CmdFrame
  \/ \E has_error \in BOOLEAN : OnTracingDisabled(has_error) /\ CmdFrame
  \/ OnCtrlC /\ CmdFrame
  \/ \E flush_success \in BOOLEAN : OnFlush(flush_success) /\ CmdFrame
  \/ \E success \in BOOLEAN : OnDetach(success) /\ CmdFrame
  \/ \E success \in BOOLEAN, trace_config \in OptionConfigs :
       OnAttach(success, trace_config) /\ CmdFrame
  \/ \E all_data_sources_started \in BOOLEAN :
       OnObservableEvents(all_data_sources_started) /\ CmdFrame
  \/ WaitOnBgProcessPipeTimeout /\ CmdFrame
  \/ WaitOnBgProcessPipeRead /\ CmdFrame

CmdSpec == PerfettoCmdInit /\ [][CmdNext]_vars

(***************************************************************************)
(* Specification of the slice track                                        *)
(***************************************************************************)

TrackSpecInit == TrackInit /\ SniffIdle /\ FwdIdle /\ EngIdle /\ CmdIdle

TrackFrame ==
  UNCHANGED sniffVars /\ UNCHANGED fwdVars /\ UNCHANGED engVars
    /\ UNCHANGED cmdVars

\* frames, settled promises and user input in any order; the engine may
\* settle the promises in any order
TrackNext ==
  \/ maybeRequestData /\ TrackFrame
  \/ \E i \in 1..Len(pending), maxDur \in 0..MaxDur :
       QueryResolves(i, maxDur) /\ TrackFrame
  \/ \E i \in 1..Len(pending) : QueryRejects(i) /\ TrackFrame
  \/ \E w \in Viewports : PanOrZoom(w) /\ TrackFrame

TrackSpec == TrackSpecInit /\ [][TrackNext]_vars

(***************************************************************************)
(* Properties of the sniffer (checked under SniffSpec)                     *)
(***************************************************************************)

\* the first min(size, 32) bytes of d
SniffWindow(d) == [i \in 1..(IF Len(d) < 32 THEN Len(d) ELSE 32) |-> d[i]]

\* pat occurs in w at position pos
OccursAt(w, pat, pos) ==
  /\ pos + Len(pat) - 1 <= Len(w)
  /\ \A j \in 1..Len(pat) : w[pos + j - 1] = pat[j]

OccursIn(w, pat) == \E pos \in 1..Len(w) : OccursAt(w, pat, pos)

Whitespace == {9, 10, 11, 12, 13, 32}

\* the n-th byte of w that is not whitespace is pat[n], for every n
StrippedBeginsWith(w, pat) ==
  \A n \in 1..Len(pat) :
    \E pos \in 1..Len(w) :
      /\ w[pos] \notin Whitespace
      /\ Cardinality({i \in 1..pos : w[i] \notin Whitespace}) = n
      /\ w[pos] = pat[n]

\* rule k of the classification table matches input d
RuleMatches(k, d) ==
  LET w == SniffWindow(d) IN
  CASE k = 0 -> Len(d) = 0
    [] k = 1 -> Len(d) >= 8 /\ OccursAt(d, kFuchsiaMagicNumber, 1)
    [] k = 2 -> StrippedBeginsWith(w, <<123, 34>>) \/ StrippedBeginsWith(w, <<91, 123, 34>>)
    [] k = 3 -> OccursIn(w, SystraceHeader)
    [] k = 4 -> OccursAt(w, HtmlDoctype, 1) \/ OccursAt(w, HtmlTag, 1)
    [] k = 5 -> OccursIn(w, CtraceHeader)
    [] k = 6 -> OccursAt(w, NinjaLogHeader, 1)
    [] k = 7 -> OccursAt(w, <<32>>, 1)
    [] k = 8 -> OccursAt(w, <<31, 139>>, 1)
    [] k = 9 -> OccursAt(w, <<10>>, 1)
    [] k = 10 -> TRUE

RuleKind(k) ==
  CASE k \in {0, 10} -> kUnknownTraceType
    [] k = 1 -> kFuchsiaTraceType
    [] k = 2 -> kJsonTraceType
    [] k \in {3, 4, 7} -> kSystraceTraceType
    [] k = 5 -> kCtraceTraceType
    [] k = 6 -> kNinjaLogTraceType
    [] k = 8 -> kGzipTraceType
    [] k = 9 -> kProtoTraceType

FirstRule(d) ==
  CHOOSE k \in 0..10 : RuleMatches(k, d) /\ \A j \in 0..(k - 1) : ~RuleMatches(j, d)

\* C1: GuessTraceType returns the kind of the first rule of the table
\* (0 empty, 1 Fuchsia magic, 2 JSON, 3 "# tracer", 4 HTML, 5 "TRACE:",
\* 6 ninja log, 7 leading space, 8 gzip, 9 0x0A, 10 otherwise) that matches
\* the first min(size, 32) bytes.
C1_FirstMatchingRuleWins ==
  kind # NoCall => kind = RuleKind(FirstRule(buf))

\* C1 witness: an HTML-led input that also holds "TRACE:" was classified by
\* rule 4, the earlier of the two.
C1_Witness ==
  /\ kind = kSystraceTraceType
  /\ FirstRule(buf) = 4
  /\ RuleMatches(5, buf)

\* C2 as stated: an input that begins with a magic number (Fuchsia with
\* size >= 8, or gzip) is classified by it whatever else the window holds.
C2_MagicNumberAlwaysWins ==
  kind # NoCall =>
    /\ (Len(buf) >= 8 /\ OccursAt(buf, kFuchsiaMagicNumber, 1)) => kind = kFuchsiaTraceType
    /\ OccursAt(buf, <<31, 139>>, 1) => kind = kGzipTraceType

\* C2 amended: the Fuchsia magic (size >= 8) always classifies as Fuchsia;
\* the gzip magic classifies as Gzip unless the window contains "# tracer"
\* (then Systrace) or else "TRACE:" (then Ctrace).
C2_MagicNumberUnlessTextHeader ==
  kind # NoCall =>
    /\ (Len(buf) >= 8 /\ OccursAt(buf, kFuchsiaMagicNumber, 1)) => kind = kFuchsiaTraceType
    /\ OccursAt(buf, <<31, 139>>, 1) =>
         kind = IF OccursIn(SniffWindow(buf), SystraceHeader) THEN kSystraceTraceType
                ELSE IF OccursIn(SniffWindow(buf), CtraceHeader) THEN kCtraceTraceType
                ELSE kGzipTraceType

\* C2 witness: an input led by the Fuchsia magic and followed by "# tracer"
\* inside the window was classified as Fuchsia.
C2_Witness ==
  /\ kind = kFuchsiaTraceType
  /\ OccursAt(buf, kFuchsiaMagicNumber, 1)
  /\ OccursIn(SniffWindow(buf), SystraceHeader)

\* C3: the result depends only on the first 32 bytes (a call on a copy of
\* that window returns what the call on the whole buffer returned), a repeated
\* call returns the same kind, and a call changes neither the buffer nor the
\* dispatcher.
C3_PureFunctionOfWindow ==
  /\ [](kindAgain # NoCall => kindAgain = kind)
  /\ [](kindWindow # NoCall => kindWindow = kind)
  /\ [][SniffNext => (buf' = buf /\ UNCHANGED fwdVars)]_vars

\* C3 witness: a buffer longer than 32 bytes with "TRACE:" past the window was
\* sniffed three times.
C3_Witness ==
  /\ kindWindow # NoCall
  /\ Len(buf) > 32
  /\ OccursIn(buf, CtraceHeader)
  /\ ~OccursIn(SniffWindow(buf), CtraceHeader)

(***************************************************************************)
(* Properties of the dispatcher (checked under Spec)                       *)
(***************************************************************************)

\* the step is a Parse() call
IsParseStep == feeds' = feeds + 1

\* trace type returned by the latest sniffing
LastGuess(g) == g[Len(g)]

\* "(ERR:fmt)"
ErrFmtMarker == <<40, 69, 82, 82, 58, 102, 109, 116, 41>>

\* a before b in the call log
CalledBefore(log, a, b) ==
  \E i \in 1..Len(log) : \E j \in (i + 1)..Len(log) : log[i] = a /\ log[j] = b

\* C4: once Parse() has bound reader_, every later Parse() forwards its blob
\* to the same reader_ without sniffing, and reader_, the guessed kind and the
\* sorter (with its sort mode) never change.
C4_BoundPipelineNeverChanges ==
  [][reader_ # Null =>
       /\ reader_' = reader_
       /\ guessed' = guessed
       /\ context_'.sorter = context_.sorter
       /\ IsParseStep =>
            /\ calls' = <<Call.ReaderParse>>
            /\ Len(received') = Len(received) + 1
            /\ SubSeq(received', 1, Len(received)) = received
            /\ \E ts \in TokenizerStatuses :
                 Parse(received'[Len(received')], ts)]_vars

\* C4 witness: a second blob that sniffs as another kind than the bound one
\* was forwarded to the bound reader after a single sniffing.
C4_Witness ==
  /\ reader_ # Null
  /\ feeds = 2
  /\ Len(guessed) = 1
  /\ Len(received) = 2
  /\ GuessTraceType(received[2], Len(received[2])) # guessed[1]

\* C5 as stated: after a Parse() that failed in sniffing or binding, no later
\* Parse() runs the sniffer again or binds a reader.
C5_SniffFailureIsTerminal ==
  [][(feeds > 0 /\ reader_ = Null /\ ~status.ok) =>
       (guessed' = guessed /\ reader_' = Null)]_vars

\* C6: when the blob sniffs as kUnknownTraceType, Parse() returns an error
\* whose message contains "(ERR:fmt)", no reader receives the blob and no
\* sorter is created.
C6_UnknownCarriesMarker ==
  (guessed # <<>> /\ LastGuess(guessed) = kUnknownTraceType) =>
    /\ ~status.ok
    /\ OccursIn(status.msg, ErrFmtMarker)
    /\ calls = <<Call.Guess>>
    /\ received = <<>>
    /\ reader_ = Null
    /\ context_.sorter = NullSorter

\* C6 witness: a first Parse() of a blob of unknown type has returned.
C6_Witness ==
  /\ feeds = 1
  /\ guessed = <<kUnknownTraceType>>
  /\ ~status.ok

\* the codec of a recognised trace type is missing from the context
CodecMissing(trace_type, ctx) ==
  CASE trace_type = kJsonTraceType ->
         ctx.json_trace_tokenizer = Null \/ ctx.json_trace_parser = Null
    [] trace_type = kFuchsiaTraceType ->
         ctx.fuchsia_trace_tokenizer = Null \/ ctx.fuchsia_trace_parser = Null
    [] trace_type = kSystraceTraceType -> ctx.systrace_trace_parser = Null
    [] trace_type \in {kGzipTraceType, kCtraceTraceType} -> ctx.gzip_trace_parser = Null
    [] OTHER -> FALSE

\* the words that name the missing codec in the error message:
\* "JSON", "Fuchsia", "Systrace", "zlib not enabled"
CodecWords(trace_type) ==
  CASE trace_type = kJsonTraceType -> <<74, 83, 79, 78>>
    [] trace_type = kFuchsiaTraceType -> <<70, 117, 99, 104, 115, 105, 97>>
    [] trace_type = kSystraceTraceType -> <<83, 121, 115, 116, 114, 97, 99, 101>>
    [] trace_type \in {kGzipTraceType, kCtraceTraceType} ->
         <<122, 108, 105, 98, 32, 110, 111, 116, 32, 101, 110, 97, 98, 108, 101, 100>>

\* C7: a first Parse() whose blob sniffs as a recognised type with a missing
\* codec returns an error that names the codec ("zlib not enabled" for Gzip
\* and Ctrace) and does not carry the "(ERR:fmt)" marker, and the dispatcher
\* stays unbound.
C7_MissingCodecIsUnsupported ==
  [][(IsParseStep /\ reader_ = Null /\ CodecMissing(LastGuess(guessed'), context_)) =>
       /\ ~status'.ok
       /\ OccursIn(status'.msg, CodecWords(LastGuess(guessed')))
       /\ ~OccursIn(status'.msg, ErrFmtMarker)
       /\ reader_' = Null
       /\ context_'.sorter = NullSorter
       /\ received' = received]_vars

\* C7 witness: a gzip blob was refused for want of zlib.
C7_Witness ==
  /\ guessed # <<>>
  /\ LastGuess(guessed) = kGzipTraceType
  /\ context_.gzip_trace_parser = Null
  /\ reader_ = Null
  /\ status = ErrStatus(kNoZlibErr)

\* C8: Json and Fuchsia are bound with the full sort whatever the configured
\* mode; Proto is bound with the full sort iff the configured mode is
\* kForceFullSort, and with the default (windowed) sort otherwise.
C8_SortModeByKindAndConfig ==
  /\ reader_ \in {"JsonTraceTokenizer", "FuchsiaTraceTokenizer"} =>
       context_.sorter.sorting_mode = kFullSort
  /\ reader_ = "ProtoTraceReader" =>
       /\ context_.sorter.sorting_mode = kFullSort <=> context_.sorting_mode = kForceFullSort
       /\ context_.sorting_mode \in {kDefaultHeuristics, kForceFlushPeriodWindowedSort} =>
            context_.sorter.sorting_mode = kDefault

\* C8 witness: a proto trace bound under kForceFlushPeriodWindowedSort.
C8_Witness ==
  /\ reader_ = "ProtoTraceReader"
  /\ context_.sorting_mode = kForceFlushPeriodWindowedSort
  /\ context_.sorter.sorting_mode = kDefault

SortedReaders == {"JsonTraceTokenizer", "ProtoTraceReader", "FuchsiaTraceTokenizer"}

UnsortedReaders == {"SystraceTraceParser", "GzipTraceParser", "NinjaLogParser"}

C10_PidZeroNotifiedAtMostOnce ==
  context_.pid_zero_ignored <= 1

\* C11: SetPidZeroIgnoredForIdleProcess is called only by a Parse() that
\* sniffed Proto or Systrace, and when it is called no blob has been forwarded
\* yet and the call precedes reader_->Parse() in the same Parse().
C11_PidZeroOnlyProtoSystraceBeforeForward ==
  [][context_'.pid_zero_ignored # context_.pid_zero_ignored =>
       /\ IsParseStep
       /\ guessed' # guessed
       /\ LastGuess(guessed') \in {kProtoTraceType, kSystraceTraceType}
       /\ received = <<>>
       /\ ~CalledBefore(calls', Call.ReaderParse, Call.SetPidZero)
       /\ \E i \in 1..Len(calls') : calls'[i] = Call.SetPidZero]_vars

\* C11 witness: a systrace trace was bound: sniffed, the notification sent,
\* then the first blob forwarded.
C11_Witness ==
  /\ guessed = <<kSystraceTraceType>>
  /\ calls = <<Call.Guess, Call.SetPidZero, Call.ReaderParse>>
  /\ context_.pid_zero_ignored = 1
  /\ Len(received) = 1

\* C12 as stated: a NotifyEndOfFile() call on an unbound dispatcher fails
\* fast and forwards nothing; on a bound dispatcher it is forwarded to the
\* reader.  Every call that was not forwarded ended the process.
C12_EofWhileUnboundFailsFast ==
  /\ eofs < eof_calls => crashed
  /\ (reader_ = Null => eofs = 0)

\* C13: once bound, the status of reader_->Parse() is what Parse() returns,
\* and after a tokenizer error the dispatcher keeps reader_, does not sniff,
\* and forwards the next blob to the same reader.
C13_TokenizerErrorKeepsBinding ==
  /\ [][(IsParseStep /\ calls'[Len(calls')] = Call.ReaderParse) =>
          /\ reader_' # Null
          /\ reader_ # Null => reader_' = reader_
          /\ \A ts \in TokenizerStatuses :
               Parse(received'[Len(received')], ts) => status' = ts]_vars
  /\ [][(reader_ # Null /\ ~status.ok) =>
          /\ reader_' = reader_
          /\ guessed' = guessed
          /\ IsParseStep => /\ calls' = <<Call.ReaderParse>>
                            /\ Len(received') = Len(received) + 1]_vars

\* C13 witness: the bound reader has returned its error for a second blob,
\* after a single sniffing.
C13_Witness ==
  /\ reader_ # Null
  /\ status = ErrStatus(TokenizerErr)
  /\ feeds = 2
  /\ Len(guessed) = 1
  /\ Len(received) = 2

(***************************************************************************)
(* Properties of the reordering engine (checked under SorterSpec)          *)
(***************************************************************************)

\* the timestamps do not go down along a sequence of events
NonDecreasing(events) ==
  \A i \in 1..Len(events) - 1 : events[i].ts <= events[i + 1].ts

\* every accepted event occurs exactly once in the emitted sequence
EmittedExactlyOnce ==
  /\ Len(eng_emitted) = Len(eng_inserted)
  /\ \A k \in 1..Len(eng_inserted) :
       \E i \in 1..Len(eng_emitted) :
         /\ eng_emitted[i].seq = k
         /\ eng_emitted[i].ts = eng_inserted[k].ts
         /\ \A j \in 1..Len(eng_emitted) : eng_emitted[j].seq = k => j = i

\* C14: in FullSort mode what the parser has received once the stream ended
\* is the stable sort of the inserted events: all of them, each once, all
\* emitted by the drain, by increasing timestamp and, among equal timestamps,
\* first arrived first.
C14_FullSortDrainIsStableSort ==
  (eng_mode = kFullSort /\ eng_state = Eng.Closed) =>
    /\ EmittedExactlyOnce
    /\ \A i \in 1..Len(eng_emitted) : eng_emitted[i].by = By.Drain
    /\ \A i \in 1..Len(eng_emitted), j \in 1..Len(eng_emitted) :
         i < j =>
           \/ eng_emitted[i].ts < eng_emitted[j].ts
           \/ /\ eng_emitted[i].ts = eng_emitted[j].ts
              /\ eng_emitted[i].seq < eng_emitted[j].seq

C14_Witness ==
  /\ eng_mode = kFullSort
  /\ eng_state = Eng.Closed
  /\ Len(eng_inserted) = 3
  /\ eng_inserted[1].ts > eng_inserted[2].ts
  /\ eng_inserted[2].ts = eng_inserted[3].ts
  /\ Len(eng_emitted) = 3
  /\ eng_emitted[1].seq = 2
  /\ eng_emitted[2].seq = 3
  /\ eng_emitted[3].seq = 1

\* C15: in FullSort mode nothing is emitted before the end of the stream,
\* whatever the insertions and ticks, and no operation goes through Flushing.
C15_FullSortEmitsOnlyAtEndOfStream ==
  eng_mode = kFullSort =>
    /\ eng_state # Eng.Closed => eng_emitted = <<>>
    /\ \A i \in 1..Len(eng_path) : eng_path[i] # Eng.Flushing

C15_Witness ==
  /\ eng_mode = kFullSort
  /\ eng_state = Eng.Accumulating
  /\ eng_ticks = 1
  /\ Len(eng_inserted) = 3
  /\ eng_inserted[3].ts - eng_inserted[1].ts > WindowNs
  /\ eng_emitted = <<>>

\* the inserted timestamps all lie within the window of each other
AllWithinWindow ==
  \A i \in 1..Len(eng_inserted), j \in 1..Len(eng_inserted) :
    eng_inserted[i].ts - eng_inserted[j].ts <= WindowNs

\* C16: in Windowed mode, when the inserted timestamps all lie within the
\* window of each other, the emitted sequence (flushes and final drain
\* together) is non-decreasing in timestamp, whatever the insertion order.
C16_WindowedWithinWindowIsOrdered ==
  (eng_mode = kDefault /\ AllWithinWindow) => NonDecreasing(eng_emitted)

C16_Witness ==
  /\ eng_mode = kDefault
  /\ eng_state = Eng.Closed
  /\ eng_ticks = 1
  /\ Len(eng_inserted) = 3
  /\ AllWithinWindow
  /\ eng_inserted[1].ts > eng_inserted[2].ts
  /\ eng_inserted[3].ts > eng_inserted[2].ts
  /\ Len(eng_emitted) = 3

\* the regression of each emitted event against the one emitted before it is
\* at most the given tolerance
RegressionAtMost(tolerance) ==
  \A i \in 1..Len(eng_emitted) - 1 :
    eng_emitted[i].ts - eng_emitted[i + 1].ts <= tolerance

\* the emitted events that were not late arrivals, in emission order
EmittedInTime == SelectSeq(eng_emitted, LAMBDA e : e.by # By.Late)

\* C17 (as stated): no emitted event is below the previously emitted one by
\* more than the window in Windowed mode, or at all in FullSort mode.
C17_RegressionBoundedByWindow ==
  /\ eng_mode = kDefault => RegressionAtMost(WindowNs)
  /\ eng_mode = kFullSort => RegressionAtMost(0)

\* C17 (amended): in FullSort mode no emitted event is below the previously
\* emitted one; in Windowed mode the events emitted by flushes and by the
\* final drain are non-decreasing among themselves, while an event that
\* arrived more than the window behind the high-water timestamp is emitted
\* where it arrives and is outside that order.
C17_InTimeEventsNeverRegress ==
  /\ eng_mode = kFullSort => RegressionAtMost(0)
  /\ eng_mode = kDefault => NonDecreasing(EmittedInTime)

C17_Witness ==
  /\ eng_mode = kDefault
  /\ Len(eng_emitted) = 3
  /\ eng_emitted[1].by = By.Flush
  /\ eng_emitted[2].by = By.Late
  /\ eng_emitted[1].ts - eng_emitted[2].ts > WindowNs
  /\ eng_emitted[3].by = By.Drain

\* C18: in Windowed mode an insertion whose timestamp is more than the window
\* behind the high-water timestamp emits that event at once, after what was
\* emitted before, and leaves the buffer as it was: the event is neither
\* dropped nor buffered.
C18_LateEventEmittedImmediately ==
  [][(/\ eng_mode = kDefault
      /\ Len(eng_inserted') = Len(eng_inserted) + 1
      /\ eng_high_water # NoTs
      /\ eng_inserted'[Len(eng_inserted')].ts < eng_high_water - WindowNs) =>
       /\ Len(eng_emitted') = Len(eng_emitted) + 1
       /\ SubSeq(eng_emitted', 1, Len(eng_emitted)) = eng_emitted
       /\ eng_emitted'[Len(eng_emitted')].ts = eng_inserted'[Len(eng_inserted')].ts
       /\ eng_emitted'[Len(eng_emitted')].seq = Len(eng_inserted')
       /\ eng_buffer' = eng_buffer]_vars

C18_Witness ==
  /\ eng_mode = kDefault
  /\ eng_state = Eng.Accumulating
  /\ Len(eng_inserted) = 3
  /\ Len(eng_emitted) = 2
  /\ eng_emitted[2].by = By.Late
  /\ eng_emitted[2].seq = 3
  /\ eng_emitted[1].ts > eng_emitted[2].ts
  /\ eng_buffer # {}

\* C19: once the end of the stream has been processed the buffer is empty and
\* every event inserted before it has been emitted exactly once, in both
\* modes, also when the stream ends before any flush or before any event.
C19_EndOfStreamDrainsEverything ==
  (eng_state = Eng.Closed \/ (eng_state = Eng.Empty /\ eng_failed)) =>
    /\ eng_buffer = {}
    /\ EmittedExactlyOnce

C19_Witness ==
  /\ eng_mode = kDefault
  /\ eng_state = Eng.Closed
  /\ eng_ticks = 0
  /\ eng_path = <<Eng.Draining, Eng.Closed>>
  /\ Len(eng_inserted) = 3
  /\ Len(eng_emitted) = 3
  /\ \A i \in 1..3 : eng_emitted[i].by = By.Drain
  /\ eng_buffer = {}

\* the transitions of the engine's state machine
EngEdges ==
  { <<Eng.Empty, Eng.Accumulating>>,
    <<Eng.Accumulating, Eng.Flushing>>,
    <<Eng.Flushing, Eng.Accumulating>>,
    <<Eng.Accumulating, Eng.Draining>>,
    <<Eng.Draining, Eng.Closed>> }

\* C20: every operation moves the engine along Empty -> Accumulating ->
\* (Flushing <-> Accumulating)* -> Draining -> Closed; only the end of the
\* stream goes through Draining; a Closed engine stays Closed, accepts no
\* insertion and emits nothing more.
C20_StateMachineAndClosedRejects ==
  [][LET walk == <<eng_state>> \o eng_path' IN
       /\ \A i \in 1..Len(walk) - 1 : <<walk[i], walk[i + 1]>> \in EngEdges
       /\ eng_state' = walk[Len(walk)]
       /\ eng_state' \in {Eng.Empty, Eng.Accumulating, Eng.Closed}
       /\ (\E i \in 1..Len(eng_path') : eng_path'[i] = Eng.Draining) =>
            NotifyEndOfStream
       /\ eng_state = Eng.Closed =>
            /\ eng_state' = Eng.Closed
            /\ eng_inserted' = eng_inserted
            /\ eng_emitted' = eng_emitted
            /\ eng_buffer' = eng_buffer]_vars

C20_Witness ==
  /\ eng_state = Eng.Closed
  /\ eng_rejected = 1
  /\ eng_failed
  /\ eng_ticks = 1
  /\ Len(eng_inserted) = 2
  /\ Len(eng_emitted) = 2
  /\ eng_emitted[1].by = By.Flush
  /\ eng_emitted[2].by = By.Drain

\* the events appended to the emitted sequence by the step
NewlyEmitted == SubSeq(eng_emitted', Len(eng_emitted) + 1, Len(eng_emitted'))

\* the event accepted by the step, if any
NewlyInserted ==
  IF Len(eng_inserted') = Len(eng_inserted) + 1
  THEN {eng_inserted'[Len(eng_inserted')]}
  ELSE {}

\* the step went through the given state
WentThrough(state) == \E i \in 1..Len(eng_path') : eng_path'[i] = state

\* the buffer changes only through insert, flush and drain, and a flush
\* emits exactly the pending events older than high-water - window, in
\* (timestamp, arrival) order
BufferOwnedAndFlushExact ==
  /\ eng_buffer' # eng_buffer =>
       \/ NewlyInserted # {}
       \/ WentThrough(Eng.Flushing)
       \/ WentThrough(Eng.Draining)
  /\ eng_buffer' \subseteq eng_buffer \cup NewlyInserted
  /\ (eng_mode = kDefault /\ WentThrough(Eng.Flushing)) =>
       LET held == eng_buffer \cup NewlyInserted
           old == {e \in held : e.ts < eng_high_water' - WindowNs}
       IN /\ Len(eng_emitted') >= Len(eng_emitted)
          /\ SubSeq(eng_emitted', 1, Len(eng_emitted)) = eng_emitted
          /\ Len(NewlyEmitted) = Cardinality(old)
          /\ \A e \in old : \E i \in 1..Len(NewlyEmitted) :
               /\ NewlyEmitted[i].ts = e.ts
               /\ NewlyEmitted[i].seq = e.seq
          /\ \A i \in 1..Len(NewlyEmitted), j \in 1..Len(NewlyEmitted) :
               i < j => SortKeyLess(NewlyEmitted[i], NewlyEmitted[j])
          /\ eng_buffer' = held \ old

\* C21 (as stated): in Windowed mode, whatever the interleaving of ticks and
\* insertions, the buffer changes only through insert, flush and drain, each
\* flush emits exactly the buffered events older than high-water - window in
\* (timestamp, arrival) order, and the ordering invariants of the emitted
\* stream hold: non-decreasing when all timestamps are within the window of
\* each other, and no regression by more than the window.
C21_InterleavingsPreserveOrderingInvariants ==
  /\ [][BufferOwnedAndFlushExact]_vars
  /\ [](eng_mode = kDefault =>
          /\ AllWithinWindow => NonDecreasing(eng_emitted)
          /\ RegressionAtMost(WindowNs))

\* C21 (amended): the same for the buffer and the flushes; of the ordering
\* invariants, the emitted stream is non-decreasing when all timestamps are
\* within the window of each other, and the events emitted by flushes and by
\* the drain are non-decreasing among themselves; late arrivals are emitted
\* at once and outside that order.
C21_InterleavingsPreserveInTimeOrder ==
  /\ [][BufferOwnedAndFlushExact]_vars
  /\ [](eng_mode = kDefault =>
          /\ AllWithinWindow => NonDecreasing(eng_emitted)
          /\ NonDecreasing(EmittedInTime))

C21_Witness ==
  /\ eng_mode = kDefault
  /\ eng_state = Eng.Accumulating
  /\ eng_ticks = 1
  /\ eng_path = <<Eng.Flushing, Eng.Accumulating>>
  /\ Len(eng_inserted) = 3
  /\ eng_inserted[1].ts > eng_inserted[2].ts
  /\ Len(eng_emitted) = 2
  /\ eng_emitted[1].by = By.Flush
  /\ eng_emitted[2].by = By.Flush
  /\ Cardinality(eng_buffer) = 1

(***************************************************************************)
(* Further properties of the dispatcher (checked under Spec)               *)
(***************************************************************************)

\* the first Parse() bound reader_: a single sniffing, and reader_ is set
FirstCallBound == reader_ # Null /\ Len(guessed) = 1

\* C27: when the first Parse() binds, the bound reader receives every blob
\* given to Parse(), once and in the order given, the sniffed first blob
\* included: each Parse() appends its own blob to what the reader received.
C27_EveryBlobForwardedOnceInOrder ==
  /\ [](FirstCallBound => Len(received) = feeds)
  /\ [][(IsParseStep /\ reader_' # Null /\ Len(guessed') = 1) =>
          /\ Len(received') = Len(received) + 1
          /\ SubSeq(received', 1, Len(received)) = received
          /\ \E ts \in TokenizerStatuses :
               Parse(received'[Len(received')], ts)]_vars

C27_Witness ==
  /\ FirstCallBound
  /\ guessed = <<kJsonTraceType>>
  /\ feeds = 2
  /\ received = <<Blob.Json, Blob.Proto>>

\* C28: a Parse() that fails while sniffing or binding leaves the state as
\* it was: reader_ stays unset and the context is untouched (no sorter, no
\* tokenizer or parser moved out, no pid-zero notification).
C28_FailedBindHasNoEffect ==
  [][(IsParseStep /\ reader_ = Null /\ reader_' = Null) =>
       context_' = context_]_vars

(***************************************************************************)
(* Properties of the command line client (checked under CmdSpec)           *)
(***************************************************************************)

\* the option is on the command line
Given(opt) == \E i \in 1..Len(argv) : argv[i].opt = opt

\* one of the options is on the command line
GivenAny(opts) == \E i \in 1..Len(argv) : argv[i].opt \in opts

\* the options that end the option loop with exit code 0
ExitsWithZero == {"version", "reset-guardrails"}

\* the step is the parsing of the command line
IsParseCmdline == pc = Pc.Main /\ pc' # Pc.Main

\* the parsing failed with exit code 1 and nothing was sent to the service
ParseFailed ==
  /\ pc' = Pc.Exited
  /\ exit_code' = 1
  /\ ipc' = {}
  /\ svc' = NoService

\* the calls that stop the session or read its buffers
StopOrRead == {Ipc.DisableTracing, Ipc.ReadBuffers}

\* in --is_detached mode: exit code 2 when the attach fails, a Detach and no
\* other effect when it succeeds, then exit code 0 or 1 with the detach
IsDetachedExitCodes ==
  /\ \A success \in BOOLEAN, trace_config \in OptionConfigs :
       (OnAttach(success, trace_config) /\ cmd.redetach_once_attached_) =>
         IF success
         THEN /\ ipc' = ipc \cup {Ipc.Detach}
              /\ cmd' = cmd
              /\ pc' = Pc.Run
         ELSE /\ pc' = Pc.Exited
              /\ exit_code' = 2
  /\ \A success \in BOOLEAN :
       (OnDetach(success) /\ cmd.redetach_once_attached_) =>
         /\ pc' = Pc.Exited
         /\ exit_code' = IF success THEN 0 ELSE 1

\* C22 (as stated): with --is_detached the exit code is 2 when the attach
\* fails, 0 when attach and re-detach succeed, 1 when the re-detach fails;
\* after a successful attach the tool detaches and never stops or reads the
\* trace.
C22_IsDetachedNeverStopsOrReads ==
  /\ [][IsDetachedExitCodes]_vars
  /\ [][(cmd.redetach_once_attached_ /\ Ipc.Detach \in ipc) =>
          ipc' \cap StopOrRead = ipc \cap StopOrRead]_vars

\* C22 (amended): the same exit codes; the attach handler only detaches; a
\* DisableTracing after the attach comes from a SIGINT/SIGTERM only, and a
\* ReadBuffers from a tracing-disabled notification of the service only.
C22_IsDetachedOnlyDetaches ==
  /\ [][IsDetachedExitCodes]_vars
  /\ [][(cmd.redetach_once_attached_ /\ Ipc.Detach \in ipc) =>
          /\ (Ipc.DisableTracing \in ipc' \ ipc) => svc.n_signals > 0
          /\ (Ipc.ReadBuffers \in ipc' \ ipc) => (~svc.disabled /\ svc'.disabled)
          /\ (Ipc.Flush \in ipc' \ ipc) => svc'.n_signals = svc.n_signals + 1]_vars

C22_Witness ==
  /\ cmd.redetach_once_attached_
  /\ pc = Pc.Exited
  /\ exit_code = 0
  /\ ipc = {Ipc.Attach, Ipc.Detach}

\* C23: with --background-wait at most one status byte is written to the
\* pipe and a later notification writes nothing; the foreground process
\* returns kBackgroundOk only for a kBackgroundOk byte, kBackgroundTimeout
\* when nothing arrived in time, kBackgroundOtherError when the pipe was
\* closed without a byte, and otherwise the byte it read.
C23_BackgroundWaitStatus ==
  /\ [](Len(pipe.bytes) <= 1)
  /\ [][pipe.bytes # <<>> => pipe'.bytes = pipe.bytes]_vars
  /\ [](fg = kBackgroundOk => pipe.bytes = <<kBackgroundOk>>)
  /\ [][(fg = Fg.Waiting /\ fg' # fg) =>
          fg' = IF pipe.bytes # <<>> THEN pipe.bytes[1]
                ELSE IF pipe.wr THEN kBackgroundTimeout
                ELSE kBackgroundOtherError]_vars

C23_Witness ==
  /\ fg = kBackgroundOk
  /\ pipe.bytes = <<kBackgroundOk>>
  /\ svc.n_obs = 2
  /\ pc = Pc.Exited
  /\ exit_code = 1

NeverWithQuery ==
  {"c", "o", "d", "D", "t", "ATRACE_CAT", "upload", "detach", "attach",
   "is_detached", "stop", "save-for-bugreport", "h"}

\* C25: parsing fails with exit code 1 whenever --save-for-bugreport is
\* combined with any other option or positional argument.
C25_BugreportTakesNoOtherArgument ==
  [][(/\ IsParseCmdline
      /\ Given("save-for-bugreport")
      /\ \E i \in 1..Len(argv) : argv[i].opt # "save-for-bugreport")
       => ParseFailed]_vars

C29_DetachOnlyWithWriteIntoFile ==
  (Ipc.EnableTracing \in ipc /\ Ipc.Detach \in ipc) =>
    cmd.trace_config_.write_into_file

C29_Witness ==
  /\ Ipc.EnableTracing \in ipc
  /\ Ipc.Detach \in ipc
  /\ cmd.detach_key_ # ""
  /\ cmd.trace_config_.write_into_file
  /\ pc = Pc.Exited
  /\ exit_code = 0

\* C30: while the buffers are read back, a timer-driven watchdog check
\* finalizes the trace if and only if the previous watchdog event was a
\* check too (no OnTraceData in between); the check made when tracing is
\* disabled never finalizes.
C30_WatchdogNeedsTwoChecksWithoutData ==
  /\ [][(svc'.n_checks = svc.n_checks + 1) =>
          /\ last_wd \in {Wd.Check, Wd.Data}
          /\ (finalized' = finalized + 1 /\ pc' = Pc.Quit) <=> last_wd = Wd.Check
          /\ (finalized' = finalized /\ pc' = Pc.Run) <=> last_wd = Wd.Data]_vars
  /\ [][(~svc.disabled /\ svc'.disabled /\ Ipc.ReadBuffers \in ipc') =>
          /\ finalized' = finalized
          /\ pc' = Pc.Run
          /\ cmd'.trace_data_timeout_armed_]_vars

C30_Witness ==
  /\ pc = Pc.Quit
  /\ finalized = 1
  /\ last_wd = Wd.Check
  /\ svc.n_checks = 2
  /\ svc.n_data = 1
  /\ Ipc.ReadBuffers \in ipc

\* C31: in any session FinalizeTraceAndExit runs at most once, and no
\* packet is written after it has run.
C31_FinalizeAtMostOnce ==
  /\ [](finalized <= 1)
  /\ [][finalized > 0 => svc'.n_data = svc.n_data]_vars

\* C32: a tracing-disabled notification with an error marks the guardrail
\* state and quits, without logging kOnTracingDisabled, requesting
\* ReadBuffers or finalizing; without an error it logs the atom and requests
\* ReadBuffers when write_into_file is false and finalizes when it is true.
C32_TracingDisabledErrorOnlyQuits ==
  [][\A has_error \in BOOLEAN :
       OnTracingDisabled(has_error) =>
         IF has_error
         THEN /\ cmd'.update_guardrail_state_
              /\ pc' = Pc.Quit
              /\ atoms' = atoms
              /\ ipc' = ipc
              /\ finalized' = finalized
         ELSE /\ "kOnTracingDisabled" \in atoms'
              /\ IF cmd.trace_config_.write_into_file
                 THEN /\ finalized' = finalized + 1
                      /\ pc' = Pc.Quit
                      /\ ipc' = ipc
                 ELSE /\ finalized' = finalized
                      /\ pc' = Pc.Run
                      /\ ipc' = ipc \cup {Ipc.ReadBuffers}]_vars

C32_Witness ==
  /\ svc.disabled
  /\ pc = Pc.Quit
  /\ cmd.update_guardrail_state_
  /\ finalized = 0
  /\ "kOnTracingDisabled" \notin atoms
  /\ Ipc.ReadBuffers \notin ipc
  /\ Ipc.EnableTracing \in ipc

\* C33: a SIGINT/SIGTERM requests a Flush and nothing else; DisableTracing
\* is called by the flush callback only, and by every flush callback,
\* whatever the result of the flush.
C33_SignalFlushesThenDisables ==
  /\ [][(svc'.n_signals = svc.n_signals + 1) =>
          /\ ipc' = ipc \cup {Ipc.Flush}
          /\ svc'.flush_req = svc.flush_req + 1]_vars
  /\ [][\A flush_success \in BOOLEAN :
          OnFlush(flush_success) => Ipc.DisableTracing \in ipc']_vars
  /\ [][(Ipc.DisableTracing \in ipc' /\ Ipc.DisableTracing \notin ipc) =>
          /\ Ipc.Flush \in ipc
          /\ svc.flush_req > 0
          /\ svc'.flush_req = svc.flush_req - 1]_vars

C33_Witness ==
  /\ svc.n_signals = 1
  /\ svc.flush_req = 0
  /\ ~cmd.stop_trace_once_attached_
  /\ Ipc.Flush \in ipc
  /\ Ipc.DisableTracing \in ipc
  /\ svc.disabled

\* the file of the last -c option lists activate_triggers
LastConfigListsTriggers ==
  \E i \in 1..Len(argv) :
    /\ argv[i].opt = "c"
    /\ argv[i].optarg \in DOMAIN ConfigFiles
    /\ ConfigFiles[argv[i].optarg].activate_triggers
    /\ \A j \in (i + 1)..Len(argv) : argv[j].opt # "c"

\* C34: a run whose trace config lists activate_triggers only activates
\* triggers: no rate limiter, no consumer connection, no trace config sent,
\* no output file, and exit code 0 exactly when the trigger producer
\* reports success.
C34_TriggersRunOnlyActivatesTriggers ==
  /\ [][(IsParseCmdline /\ pc' = Pc.Connect) =>
          (cmd'.triggers_to_activate_ <=> LastConfigListsTriggers)]_vars
  /\ [](cmd.triggers_to_activate_ =>
          /\ ipc = {}
          /\ svc = NoService
          /\ ~cmd.trace_out_stream_
          /\ ~cmd.packet_writer_
          /\ atoms \cap {"kTraceBegin", "kHitGuardrails", "kOnConnect"} = {})
  /\ [][\A triggers_ok \in BOOLEAN, should_trace \in BOOLEAN :
          (ConnectToServiceAndRun(triggers_ok, should_trace)
             /\ cmd.triggers_to_activate_) =>
            /\ pc' = Pc.Exited
            /\ exit_code' = IF triggers_ok THEN 0 ELSE 1]_vars

C34_Witness ==
  /\ cmd.triggers_to_activate_
  /\ pc = Pc.Exited
  /\ exit_code = 0
  /\ "kTriggerSuccess" \in atoms
  /\ ipc = {}

(***************************************************************************)
(* Properties of the slice track (checked under TrackSpec)                 *)
(***************************************************************************)

\* C35: at most one query sequence of the track is outstanding at any time,
\* and a maybeRequestData() call made while sqlState is INITIALIZING or
\* QUERY_PENDING issues no query and changes nothing.
C35_AtMostOneQueryOutstanding ==
  /\ [](Len(pending) <= 1)
  /\ [](Len(pending) = 1 =>
          track.sqlState \in {"INITIALIZING", "QUERY_PENDING"})
  /\ [][(/\ frames' = frames + 1
         /\ track.sqlState \in {"INITIALIZING", "QUERY_PENDING"}) =>
          /\ queries' = queries
          /\ pending' = pending
          /\ track' = track]_vars

C35_Witness ==
  /\ frames = MaxFrames
  /\ queries = 4
  /\ Len(pending) = 1
  /\ pending[1].await = "slices"
  /\ track.sqlState = "QUERY_PENDING"
  /\ track.slicesBucketNs # -1

====
